---- MODULE Spec2Model ----
(***************************************************************************)
(* A model of FileTagAPI (src/backend): the API-key quota gate of auth.py  *)
(* and app.py's verify_api_key, the request handlers of app.py, and the    *)
(* on-demand derivation cache optimize_media_and_cache.                    *)
(*                                                                         *)
(* Every request is a process.  A process moves through its handler one    *)
(* database statement / filesystem call / object-store call at a time, so  *)
(* that requests interleave exactly where the server's requests can.       *)
(*                                                                         *)
(* Path parameters (company, survey) range over lower-case segments of     *)
(* [a-z0-9]; secure_name(x).lower() leaves such a segment as it is, so the *)
(* handlers' company_safe / survey_safe are the parameters themselves.     *)
(***************************************************************************)
EXTENDS Integers, Sequences, FiniteSets, TLC

\* ------------------------------------------------------------------ bounds
\* concurrent authorize calls of SpecQuota
NumCallers == 2
\* concurrent requests of Spec, of any kind
NumRequests == 2
\* concurrent upload requests of SpecUpload
NumUploaders == 2
\* concurrent derivative requests of SpecDeriv
NumDerivers == 2
\* upload requests made one after the other
NumSeqUploads == 3
\* registrations made one after the other
NumRegisters == 4
\* daily limits of the key table range over 0..MaxLimit
MaxLimit == 2
\* calendar days are 0..MaxDay
MaxDay == 1

\* ------------------------------------------------------------ value spaces
Companies == {"acme", "beta"}
Surveys == {"s1"}

\* the api keys that exist in the api_keys table, and one that does not
KnownKeys == {"K1", "K2"}
ApiKeyInputs == KnownKeys \cup {"Kx"}

Days == 0..MaxDay

QProcs == 1..NumCallers

\* A file name is [stem, n, ext]: the text stem, then "_n" when n > 0 (the
\* suffix upload_file appends to avoid overwriting), then ext.  Input stems
\* do not end in "_<digits>", so distinct records are distinct names.
NoName == [stem |-> "", n |-> 0, ext |-> ""]

VARIABLES
    api_keys,     \* table api_keys: api_key -> [company, daily_limit]   (auth.py:16-24)
    usage,        \* table usage: <<api_key, date>> -> count, UNIQUE(api_key, date) (auth.py:25-33)
    today,        \* the calendar day date.today() returns               (auth.py:60)
    GCS_ENABLED,  \* storage backend selected at startup                 (app.py:38)
    files,        \* the local filesystem below uploads/: path -> content (app.py:63)
    bucket,       \* the objects of the GCS bucket: path -> content       (storage_adapter.py:163-170)
    tags,         \* table file_tags: path -> tags                        (tags_util.py:12-19)
    pc,           \* position of every request in its handler
    req,          \* the inputs of every request
    loc,          \* the local variables of every request
    res           \* the outcome of every finished request

dbvars == <<api_keys, usage, today>>
storevars == <<GCS_ENABLED, files, bucket, tags>>
vars == <<api_keys, usage, today, GCS_ENABLED, files, bucket, tags, pc, req, loc, res>>

\* ---------------------------------------------------------------- auth.py

\* SELECT company, api_key, daily_limit FROM api_keys WHERE api_key = ?
\* cur.fetchone(): << >> is None, << row >> a row
get_key_record(api_key) ==
    IF api_key \in DOMAIN api_keys
    THEN << [company |-> api_keys[api_key].company,
             api_key |-> api_key,
             daily_limit |-> api_keys[api_key].daily_limit] >>
    ELSE << >>

\* a bug usage_insert could have: INSERT OR REPLACE, which resets an existing row
usage_insert_replace(u, api_key, day) ==
    [k \in DOMAIN u \cup {<<api_key, day>>} |->
        IF k = <<api_key, day>> THEN 0 ELSE u[k]]

\* INSERT INTO usage (api_key, date, count) VALUES (?, ?, 0); the UNIQUE
\* constraint raises IntegrityError when the row exists, which is passed over.
usage_insert(u, api_key, day) ==
    IF <<api_key, day>> \in DOMAIN u
    THEN u
    ELSE u @@ (<<api_key, day>> :> 0)

\* a bug usage_update could have: an UPDATE whose WHERE leaves out the date
usage_update_anyday(u, api_key, day) ==
    [k \in DOMAIN u |-> IF k[1] = api_key THEN u[k] + 1 ELSE u[k]]

\* UPDATE usage SET count = count + 1 WHERE api_key = ? AND date = ?
usage_update(u, api_key, day) ==
    [k \in DOMAIN u |-> IF k = <<api_key, day>> THEN u[k] + 1 ELSE u[k]]

\* SELECT count FROM usage WHERE ...; count = row[0] if row else 0
usage_select(u, api_key, day) ==
    IF <<api_key, day>> \in DOMAIN u THEN u[<<api_key, day>>] ELSE 0

\* SELECT daily_limit FROM api_keys WHERE api_key = ?; limit = rl[0] if rl else None
limit_select(api_key) ==
    IF api_key \in DOMAIN api_keys THEN << api_keys[api_key].daily_limit >> ELSE << >>

\* a bug usage_result could have: the limit-th call of a day is refused
usage_result_strict(count, limit) ==
    IF limit = << >>
    THEN [ok |-> FALSE, count |-> count, limit |-> 0]
    ELSE [ok |-> (count < limit[1]), count |-> count, limit |-> limit[1]]

\* the value increment_usage_and_check returns: (ok, count, limit)
usage_result(count, limit) ==
    IF limit = << >>
    THEN [ok |-> FALSE, count |-> count, limit |-> 0]
    ELSE [ok |-> (count <= limit[1]), count |-> count, limit |-> limit[1]]

\* ------------------------------------------------- app.py: verify_api_key

\* local variables and response before they are assigned (status 0: no response yet)
\* day, count: locals of increment_usage_and_check; auth: the handler's auth
\* parameter is set (verify_api_key returned); vf: the video filter is set.
\* Instrumentation, read by no action: mine (the value the call's own UPDATE
\* produced), store (the request has read, listed or written an object),
\* work (runs of the resize / transcode step), hit (the derivative was found
\* to exist), seen (the state the found derivative was in), after (the
\* requests that had finished when this one began), touched (the resolved
\* filesystem paths the request read or wrote).
NoLoc == [day |-> 0, count |-> 0, mine |-> 0, auth |-> FALSE, vf |-> FALSE,
          store |-> FALSE, work |-> 0, hit |-> FALSE, seen |-> "", after |-> {},
          touched |-> {}, chosen |-> NoName, tagfail |-> FALSE,
          logfail |-> FALSE, src_width |-> -1]
\* status 0: no response yet; addr: the address returned; listing: the names listed
NoRes == [status |-> 0, count |-> 0, limit |-> 0, addr |-> << >>, listing |-> {},
          detail |-> "", filename |-> NoName]

\* size, ctype: the payload size and content type of an upload form, where the
\* request carries them from its start; adc, sa_key: the credentials the
\* process has when a URL is signed; user_id: the owner id of a Local upload
\* or the owner filter of a listing (character level, << >> when not given)
NoReq == [op |-> "none", company |-> "", key |-> "", survey |-> "", name |-> NoName,
          size |-> 0, ctype |-> << >>, adc |-> "", sa_key |-> "", user_id |-> << >>, gcs |-> "ok"]

\* what the bucket answers during a request in GCS mode: "ok"; "nobucket"
\* when os.getenv("GCS_BUCKET") is empty; "error" when the client raises
\* (no credentials, no connection, bucket not accessible)
GcsStates == {"ok", "nobucket", "error"}

\* where a handler continues once its dependency verify_api_key has returned
after_auth(op) ==
    CASE op = "upload" -> "up_validate"
      [] op = "files_json" -> "list_dir"
      [] OTHER -> "done"

\* a request arrives: company is the path parameter, key the X-API-Key header
BeginAuthorize(p) ==
    /\ pc[p] = "idle"
    /\ \E c \in Companies, k \in ApiKeyInputs :
           req' = [req EXCEPT ![p] = [NoReq EXCEPT !.op = "authorize", !.company = c, !.key = k]]
    /\ pc' = [pc EXCEPT ![p] = "lookup"]
    /\ UNCHANGED <<api_keys, usage, today, loc, res>>
    /\ UNCHANGED storevars

\* a bug verify_api_key could have: the usage is counted before the company check
VerifyLookup_countFirst(p) ==
    /\ pc[p] = "lookup"
    /\ LET rec == get_key_record(req[p].key) IN
         IF rec = << >>
         THEN /\ pc' = [pc EXCEPT ![p] = "done"]
              /\ res' = [res EXCEPT ![p] = [NoRes EXCEPT !.status = 401]]
              /\ usage' = usage
         ELSE IF rec[1].company # req[p].company
         THEN /\ pc' = [pc EXCEPT ![p] = "done"]
              /\ res' = [res EXCEPT ![p] = [NoRes EXCEPT !.status = 403]]
              /\ usage' = usage_update(usage_insert(usage, req[p].key, today),
                                       req[p].key, today)
         ELSE /\ pc' = [pc EXCEPT ![p] = "insert"]
              /\ res' = res
              /\ usage' = usage
    /\ UNCHANGED <<api_keys, today, req, loc>>
    /\ UNCHANGED storevars

\* rec = get_key_record(x_api_key); 401 if absent, 403 if bound to another company
VerifyLookup(p) ==
    /\ pc[p] = "lookup"
    /\ LET rec == get_key_record(req[p].key) IN
         IF rec = << >>
         THEN /\ pc' = [pc EXCEPT ![p] = "done"]
              /\ res' = [res EXCEPT ![p] = [NoRes EXCEPT !.status = 401]]
         ELSE IF rec[1].company # req[p].company
         THEN /\ pc' = [pc EXCEPT ![p] = "done"]
              /\ res' = [res EXCEPT ![p] = [NoRes EXCEPT !.status = 403]]
         ELSE /\ pc' = [pc EXCEPT ![p] = "insert"]
              /\ res' = res
    /\ UNCHANGED <<api_keys, usage, today, req, loc>>
    /\ UNCHANGED storevars

\* increment_usage_and_check: today = date.today(); INSERT the row if absent
UsageInsert(p) ==
    /\ pc[p] = "insert"
    /\ usage' = usage_insert(usage, req[p].key, today)
    /\ loc' = [loc EXCEPT ![p].day = today]
    /\ pc' = [pc EXCEPT ![p] = "update"]
    /\ UNCHANGED <<api_keys, today, req, res>>
    /\ UNCHANGED storevars

\* increment_usage_and_check: the UPDATE statement (autocommit: its own transaction).
\* loc.mine records the value this statement produced (instrumentation only).
UsageUpdate(p) ==
    /\ pc[p] = "update"
    /\ usage' = usage_update(usage, req[p].key, loc[p].day)
    /\ loc' = [loc EXCEPT ![p].mine = usage_select(usage', req[p].key, loc[p].day)]
    /\ pc' = [pc EXCEPT ![p] = "select"]
    /\ UNCHANGED <<api_keys, today, req, res>>
    /\ UNCHANGED storevars

\* increment_usage_and_check: the SELECT count statement
UsageSelect(p) ==
    /\ pc[p] = "select"
    /\ loc' = [loc EXCEPT ![p].count = usage_select(usage, req[p].key, loc[p].day)]
    /\ pc' = [pc EXCEPT ![p] = "limit"]
    /\ UNCHANGED <<api_keys, usage, today, req, res>>
    /\ UNCHANGED storevars

\* increment_usage_and_check: SELECT daily_limit, commit, return; then
\* verify_api_key raises 429 when not ok, else returns the usage info.
UsageLimit(p) ==
    /\ pc[p] = "limit"
    /\ LET r == usage_result(loc[p].count, limit_select(req[p].key)) IN
         IF ~r.ok
         THEN /\ res' = [res EXCEPT ![p] = [NoRes EXCEPT !.status = 429, !.count = r.count,
                                                         !.limit = r.limit,
                                                         !.detail = "Daily quota exceeded"]]
              /\ pc' = [pc EXCEPT ![p] = "done"]
              /\ loc' = loc
         ELSE /\ res' = [res EXCEPT ![p] = [NoRes EXCEPT !.count = r.count, !.limit = r.limit,
                                 !.status = IF after_auth(req[p].op) = "done" THEN 200 ELSE 0]]
              /\ pc' = [pc EXCEPT ![p] = after_auth(req[p].op)]
              /\ loc' = [loc EXCEPT ![p].auth = TRUE]
    /\ UNCHANGED <<api_keys, usage, today, req>>
    /\ UNCHANGED storevars

\* midnight: date.today() moves to the next day
DayRollover ==
    /\ today < MaxDay
    /\ today' = today + 1
    /\ UNCHANGED <<api_keys, usage, pc, req, loc, res>>
    /\ UNCHANGED storevars

\* ---------------------------------------------------- app.py: upload_file

MAX_UPLOAD_SIZE == 50 * 1024 * 1024
ALLOWED_PREFIXES == {"image/", "video/"}
VIDEO_EXTS == {".mp4", ".webm", ".ogg", ".mov", ".m4v", ".avi", ".flv", ".mkv"}

\* a content type is <<type with its slash, subtype>>: <<"image/", "jpeg">>
ContentTypes == {<<"image/", "jpeg">>, <<"video/", "mp4">>, <<"text/", "plain">>,
                 <<"IMAGE/", "PNG">>, << >>}
startswith(content_type, prefix) == content_type # << >> /\ content_type[1] = prefix
\* (file.content_type or "").lower(), line 248
type_lower(content_type) ==
    IF content_type = <<"IMAGE/", "PNG">> THEN <<"image/", "png">> ELSE content_type

UploadSizes == {0, 1, MAX_UPLOAD_SIZE + 1}
UserIds == {"", "u1"}
\* the desired file names of uploads
UploadNames == {[stem |-> "a", n |-> 0, ext |-> ".jpg"], [stem |-> "a", n |-> 0, ext |-> ".mp4"]}
\* the tag sets add_random_tags_for_file may draw
TagChoices == {{"portrait"}, {"blurry", "text"}}

\* a bug upload_file could have: the size of the payload is not checked
upload_check_anysize(survey, user_id, size, content_type) ==
    IF survey = "" \/ user_id = "" THEN 400
    ELSE IF ALLOWED_PREFIXES # {}
            /\ ~ \E pre \in ALLOWED_PREFIXES : startswith(type_lower(content_type), pre)
    THEN 400
    ELSE 0

\* the checks of upload_file before anything is stored: 0 when all pass,
\* else the status of the HTTPException
upload_check(survey, user_id, size, content_type) ==
    IF survey = "" \/ user_id = "" THEN 400
    ELSE IF size = 0 THEN 400
    ELSE IF size > MAX_UPLOAD_SIZE THEN 413
    ELSE IF ALLOWED_PREFIXES # {}
            /\ ~ \E pre \in ALLOWED_PREFIXES : startswith(type_lower(content_type), pre)
    THEN 400
    ELSE 0

\* chosen_name = f"{user_safe}_{desired_name}"
chosen_name(user_safe, desired_name) ==
    [desired_name EXCEPT !.stem = user_safe \o "_" \o desired_name.stem]

objpath(company, survey, name) == <<company, survey, name>>
optpath(company, survey, name) == <<company, survey, "optimized", name>>

\* a bug the collision loop could have: the name is taken as it is
free_name_untested(fs, company, survey, name, counter) == [name EXCEPT !.n = counter]

\* the while loop of upload_file: the first of base.ext, base_1.ext, base_2.ext ...
\* that does not exist in the directory
RECURSIVE free_name(_, _, _, _, _)
free_name(fs, company, survey, name, counter) ==
    LET cand == [name EXCEPT !.n = counter] IN
    IF objpath(company, survey, cand) \in DOMAIN fs
    THEN free_name(fs, company, survey, name, counter + 1)
    ELSE cand

\* a bug the store could have: an object that exists is kept as it is
put_new(store, path, content) ==
    [x \in DOMAIN store \cup {path} |-> IF x \in DOMAIN store THEN store[x] ELSE content]

\* write path := content, creating or replacing the object
put(store, path, content) ==
    [x \in DOMAIN store \cup {path} |-> IF x = path THEN content ELSE store[x]]

\* the bytes of an upload: who wrote them, st "complete" (all bytes written)
\* or "partial", ver the number of times the path has been written
written(store, path, p, st) ==
    [by |-> p, st |-> st,
     ver |-> IF path \in DOMAIN store THEN store[path].ver + 1 ELSE 1]

BeginUpload(p) ==
    /\ pc[p] = "idle"
    /\ \E c \in Companies, k \in ApiKeyInputs, sv \in Surveys :
           req' = [req EXCEPT ![p] = [NoReq EXCEPT !.op = "upload", !.company = c,
                                                   !.key = k, !.survey = sv]]
    /\ pc' = [pc EXCEPT ![p] = "lookup"]
    /\ UNCHANGED <<loc, res>>
    /\ UNCHANGED dbvars
    /\ UNCHANGED storevars

\* a bug upload_file could have: the quota unit of a rejected upload is given back
UploadValidate_refund(p) ==
    /\ pc[p] = "up_validate"
    /\ \E user_id \in UserIds, f \in UploadNames, size \in UploadSizes, ct \in ContentTypes :
         LET st == upload_check(req[p].survey, user_id, size, ct) IN
           IF st # 0
           THEN /\ res' = [res EXCEPT ![p].status = st, ![p].detail = "rejected upload"]
                /\ pc' = [pc EXCEPT ![p] = "done"]
                /\ req' = req
                /\ usage' = [usage EXCEPT ![<<req[p].key, loc[p].day>>] = @ - 1]
                /\ loc' = loc
           ELSE /\ req' = [req EXCEPT ![p].name = chosen_name(user_id, f)]
                /\ loc' = [loc EXCEPT ![p].chosen = chosen_name(user_id, f)]
                /\ pc' = [pc EXCEPT ![p] = "up_store"]
                /\ res' = res
                /\ usage' = usage
    /\ UNCHANGED <<api_keys, today>>
    /\ UNCHANGED storevars

\* upload_file lines 220-264: the sanity checks on the form fields (user_id,
\* the file with its name, size and content type), then the name under which
\* the file is stored
upload_validate(p, user_id, f, size, ct) ==
    /\ pc[p] = "up_validate"
    /\ LET st == upload_check(req[p].survey, user_id, size, ct) IN
           IF st # 0
           THEN /\ res' = [res EXCEPT ![p].status = st, ![p].detail = "rejected upload"]
                /\ pc' = [pc EXCEPT ![p] = "done"]
                /\ req' = req
                /\ loc' = loc
           ELSE /\ req' = [req EXCEPT ![p].name = chosen_name(user_id, f)]
                /\ loc' = [loc EXCEPT ![p].chosen = chosen_name(user_id, f)]
                /\ pc' = [pc EXCEPT ![p] = "up_store"]
                /\ res' = res
    /\ UNCHANGED dbvars
    /\ UNCHANGED storevars

UploadValidate(p) ==
    \E user_id \in UserIds, f \in UploadNames, size \in UploadSizes, ct \in ContentTypes :
        upload_validate(p, user_id, f, size, ct)

\* the same request with the payload and content type it carries from its start
BeginUploadForm(p) ==
    /\ pc[p] = "idle"
    /\ \E c \in Companies, k \in ApiKeyInputs, sv \in Surveys,
          size \in UploadSizes, ct \in ContentTypes :
           req' = [req EXCEPT ![p] = [NoReq EXCEPT !.op = "upload", !.company = c,
                                                   !.key = k, !.survey = sv,
                                                   !.size = size, !.ctype = ct]]
    /\ pc' = [pc EXCEPT ![p] = "lookup"]
    /\ UNCHANGED <<loc, res>>
    /\ UNCHANGED dbvars
    /\ UNCHANGED storevars

UploadValidateForm(p) ==
    \E user_id \in UserIds, f \in UploadNames :
        upload_validate(p, user_id, f, req[p].size, req[p].ctype)

\* upload_file lines 266-278, Local: the while loop settles target_path, the
\* first name that does not exist when it is tested.  The write follows
\* after an await (aiofiles.open), so other requests run in between.
UploadPick(p) ==
    /\ pc[p] = "up_store"
    /\ ~GCS_ENABLED
    /\ req' = [req EXCEPT ![p].name =
                   free_name(files, req[p].company, req[p].survey, req[p].name, 0)]
    /\ pc' = [pc EXCEPT ![p] = "up_write"]
    /\ UNCHANGED <<loc, res>>
    /\ UNCHANGED dbvars
    /\ UNCHANGED storevars

\* upload_file lines 280-309: store the bytes (Local: open target_path "wb"
\* and write, which creates or replaces the file; GCS: save_file_bytes at
\* the deterministic name), tag the stored path, respond.  A failing write
\* (OSError, GCS error) raises: status 500.
\* add_random_tags_for_file(resp_relative), line 307, is called outside any
\* try: when tags.db cannot be written (sqlite3.OperationalError) the
\* exception leaves the handler, status 500, with the bytes already stored.
upload_tag(p, path) ==
    \/ /\ \E t \in TagChoices : tags' = put(tags, path, t)
       /\ res' = [res EXCEPT ![p].status = 200, ![p].addr = path,
                             ![p].filename = loc[p].chosen]
       /\ loc' = [loc EXCEPT ![p].store = TRUE]
    \/ /\ tags' = tags
       /\ res' = [res EXCEPT ![p].status = 500, ![p].detail = "uncaught"]
       /\ loc' = [loc EXCEPT ![p].store = TRUE, ![p].tagfail = TRUE]

UploadStore(p) ==
    /\ \/ /\ ~GCS_ENABLED
          /\ pc[p] = "up_write"
          /\ LET path == objpath(req[p].company, req[p].survey, req[p].name)
             IN /\ files' = put(files, path, written(files, path, p, "complete"))
                /\ upload_tag(p, path)
                /\ bucket' = bucket
       \/ /\ GCS_ENABLED
          /\ pc[p] = "up_store"
          /\ LET path == objpath(req[p].company, req[p].survey, req[p].name)
             IN /\ bucket' = put(bucket, path, written(bucket, path, p, "complete"))
                /\ upload_tag(p, path)
                /\ files' = files
       \/ /\ pc[p] = IF GCS_ENABLED THEN "up_store" ELSE "up_write"
          /\ res' = [res EXCEPT ![p].status = 500, ![p].detail = "storage failure"]
          /\ UNCHANGED <<files, bucket, tags, loc>>
    /\ pc' = [pc EXCEPT ![p] = "done"]
    /\ UNCHANGED <<GCS_ENABLED, req>>
    /\ UNCHANGED dbvars

\* ----------------------------------------------------- app.py: files_json

\* a bug the listings could have: the directory is walked recursively
dir_files_deep(fs, company, survey) ==
    {x[Len(x)] : x \in {y \in DOMAIN fs : Len(y) >= 3 /\ y[1] = company /\ y[2] = survey}}

\* the files directly in uploads/<company>/<survey> (p.is_file(): the
\* optimized/ directory is no file)
dir_files(fs, company, survey) ==
    {x[3] : x \in {y \in DOMAIN fs : Len(y) = 3 /\ y[1] = company /\ y[2] = survey}}

BeginFilesJson(p) ==
    /\ pc[p] = "idle"
    /\ \E c \in Companies, k \in ApiKeyInputs, sv \in Surveys :
           req' = [req EXCEPT ![p] = [NoReq EXCEPT !.op = "files_json", !.company = c,
                                                   !.key = k, !.survey = sv]]
    /\ loc' = loc
    /\ pc' = [pc EXCEPT ![p] = "lookup"]
    /\ UNCHANGED <<res>>
    /\ UNCHANGED dbvars
    /\ UNCHANGED storevars

\* files_json lines 329-383 with no user_id filter and the default page: the
\* files of the local directory, whichever backend is selected.  get_tags is
\* called for every listed file outside any try (line 380): when tags.db
\* cannot be read the exception leaves the handler, status 500.
FilesJsonList(p) ==
    /\ pc[p] = "list_dir"
    /\ \/ /\ res' = [res EXCEPT ![p].status = 200,
                                ![p].listing = dir_files(files, req[p].company, req[p].survey)]
          /\ loc' = [loc EXCEPT ![p].store = TRUE]
       \/ /\ dir_files(files, req[p].company, req[p].survey) # {}
          /\ res' = [res EXCEPT ![p].status = 500, ![p].detail = "uncaught"]
          /\ loc' = [loc EXCEPT ![p].store = TRUE, ![p].tagfail = TRUE]
    /\ pc' = [pc EXCEPT ![p] = "done"]
    /\ UNCHANGED <<req>>
    /\ UNCHANGED dbvars
    /\ UNCHANGED storevars

\* -------------------------------------------- app.py: files_list_template

BeginFilesList(p) ==
    /\ pc[p] = "idle"
    /\ \E c \in Companies, k \in ApiKeyInputs, sv \in Surveys :
           req' = [req EXCEPT ![p] = [NoReq EXCEPT !.op = "files_list", !.company = c,
                                                   !.key = k, !.survey = sv]]
    /\ loc' = loc
    /\ pc' = [pc EXCEPT ![p] = "list_key"]
    /\ UNCHANGED <<res>>
    /\ UNCHANGED dbvars
    /\ UNCHANGED storevars

\* files_list_template lines 764-771: the api_key query parameter is looked
\* up and compared with the company; increment_usage_and_check is not called
FilesListKey(p) ==
    /\ pc[p] = "list_key"
    /\ LET rec == get_key_record(req[p].key) IN
         IF rec = << >>
         THEN /\ pc' = [pc EXCEPT ![p] = "done"]
              /\ res' = [res EXCEPT ![p].status = 401]
         ELSE IF rec[1].company # req[p].company
         THEN /\ pc' = [pc EXCEPT ![p] = "done"]
              /\ res' = [res EXCEPT ![p].status = 403]
         ELSE /\ pc' = [pc EXCEPT ![p] = "list_tpl"]
              /\ res' = res
    /\ UNCHANGED <<req, loc>>
    /\ UNCHANGED dbvars
    /\ UNCHANGED storevars

\* files_list_template lines 773-876: GCS: the blobs below <company>/<survey>/
\* that are not under optimized/; Local: the files of the directory.  Here
\* get_tags is called in a try (lines 820-824, 853-856): a failing tag store
\* leaves the listing as it is, each file with the tags [].
\* GCS with no GCS_BUCKET (lines 778-781): the template with files = [];
\* a client that raises: caught around list_blobs (lines 785-789), the
\* template with files = [], or raised by storage.Client() (783) or while the
\* blobs are iterated (791), outside any try: 500.
FilesListTemplate(p) ==
    /\ pc[p] = "list_tpl"
    /\ IF GCS_ENABLED /\ req[p].gcs # "ok"
       THEN /\ \E status \in IF req[p].gcs = "error" THEN {200, 500} ELSE {200} :
                   res' = [res EXCEPT ![p].status = status, ![p].listing = {},
                                      ![p].detail = IF status = 500 THEN "uncaught"
                                                                    ELSE ""]
            /\ loc' = loc
       ELSE /\ res' = [res EXCEPT ![p].status = 200,
                                  ![p].listing = dir_files(IF GCS_ENABLED THEN bucket
                                                                          ELSE files,
                                                           req[p].company, req[p].survey)]
            /\ loc' = [loc EXCEPT ![p].store = TRUE]
    /\ pc' = [pc EXCEPT ![p] = "done"]
    /\ UNCHANGED <<req>>
    /\ UNCHANGED dbvars
    /\ UNCHANGED storevars

\* -------------------------------------------------- app.py: download_file

\* the names uploads are stored under
StoredNames == {chosen_name("u1", f) : f \in UploadNames}
\* the names a download or a derivative request may ask for: the stored ones
\* and one never uploaded, whose derivative name opt_u1_a.jpg is that of u1_a.jpg
RequestNames == StoredNames \cup {[stem |-> "u1_a", n |-> 0, ext |-> ".png"]}

BeginDownload(p) ==
    /\ pc[p] = "idle"
    /\ \E c \in Companies, sv \in Surveys, f \in RequestNames :
           req' = [req EXCEPT ![p] = [NoReq EXCEPT !.op = "download", !.company = c,
                                                   !.survey = sv, !.name = f]]
    /\ loc' = loc
    /\ pc' = [pc EXCEPT ![p] = "download"]
    /\ UNCHANGED <<res>>
    /\ UNCHANGED dbvars
    /\ UNCHANGED storevars

\* download_file lines 901-959 for a plain file name: 404 when the object
\* does not exist, else the file (Local, 200) or a redirect to its signed
\* URL (GCS, 302); no api key is asked for.  GCS with no GCS_BUCKET (908-911):
\* 500 "Server misconfigured"; a client that raises (942-944): 500.
DownloadServe(p) ==
    /\ pc[p] = "download"
    /\ LET store == IF GCS_ENABLED THEN bucket ELSE files
           path == objpath(req[p].company, req[p].survey, req[p].name)
       IN IF GCS_ENABLED /\ req[p].gcs # "ok"
          THEN /\ res' = [res EXCEPT ![p].status = 500,
                             ![p].detail = IF req[p].gcs = "nobucket"
                                           THEN "Server misconfigured"
                                           ELSE "Failed to generate download URL"]
               /\ loc' = loc
          ELSE IF path \in DOMAIN store
          THEN /\ res' = [res EXCEPT ![p].status = IF GCS_ENABLED THEN 302 ELSE 200,
                                     ![p].addr = path]
               /\ loc' = [loc EXCEPT ![p].store = TRUE]
          ELSE /\ res' = [res EXCEPT ![p].status = 404]
               /\ loc' = loc
    /\ pc' = [pc EXCEPT ![p] = "done"]
    /\ UNCHANGED <<req>>
    /\ UNCHANGED dbvars
    /\ UNCHANGED storevars

\* ------------------- app.py: optimize_endpoint, optimize_media_and_cache

\* Path(filename).stem of the name [stem, n, ext]
path_stem(name) ==
    IF name.n > 0 THEN name.stem \o "_" \o ToString(name.n) ELSE name.stem

\* opt_name = f"opt_{stem}.mp4" if ext in VIDEO_EXTS else f"opt_{stem}.jpg"
opt_name(filename) ==
    [stem |-> "opt_" \o path_stem(filename), n |-> 0,
     ext |-> IF filename.ext \in VIDEO_EXTS THEN ".mp4" ELSE ".jpg"]

\* a bug the cache check could have: an existing derivative is not recognised
deriv_exists_never(store, path) == FALSE

\* out_path.exists() / opt_blob.exists()
deriv_exists(store, path) == path \in DOMAIN store

src_of(p) == objpath(req[p].company, req[p].survey, req[p].name)
out_of(p) == optpath(req[p].company, req[p].survey, opt_name(req[p].name))

\* optimize_endpoint lines 714-719: no api key is asked for
BeginOptimize(p) ==
    /\ pc[p] = "idle"
    /\ \E c \in Companies, sv \in Surveys, f \in RequestNames :
           req' = [req EXCEPT ![p] = [NoReq EXCEPT !.op = "optimize", !.company = c,
                                                   !.survey = sv, !.name = f]]
    /\ loc' = [loc EXCEPT ![p].after = {q \in DOMAIN pc : pc[q] = "done"}]
    /\ pc' = [pc EXCEPT ![p] = IF GCS_ENABLED THEN "gcs_opt_check" ELSE "opt_src_check"]
    /\ UNCHANGED <<res>>
    /\ UNCHANGED dbvars
    /\ UNCHANGED storevars

\* a bug the Local branch could have: the source is not tested before it is read
OptSrcCheck_unchecked(p) ==
    /\ pc[p] = "opt_src_check"
    /\ pc' = [pc EXCEPT ![p] = "opt_out_check"]
    /\ UNCHANGED <<req, loc, res>>
    /\ UNCHANGED dbvars
    /\ UNCHANGED storevars

\* Local, lines 578-581: FileNotFoundError when the source does not exist
\* (optimize_endpoint answers 404), else the optimized/ directory is ensured
OptSrcCheck(p) ==
    /\ pc[p] = "opt_src_check"
    /\ IF src_of(p) \in DOMAIN files
       THEN /\ pc' = [pc EXCEPT ![p] = "opt_out_check"]
            /\ res' = res
       ELSE /\ pc' = [pc EXCEPT ![p] = "done"]
            /\ res' = [res EXCEPT ![p].status = 404, ![p].detail = "source file not found"]
    /\ UNCHANGED <<req, loc>>
    /\ UNCHANGED dbvars
    /\ UNCHANGED storevars

\* Local, lines 582-585: an existing out_path is returned as it is
OptOutCheck(p) ==
    /\ pc[p] = "opt_out_check"
    /\ IF deriv_exists(files, out_of(p))
       THEN /\ pc' = [pc EXCEPT ![p] = "done"]
            /\ res' = [res EXCEPT ![p].status = 200, ![p].addr = out_of(p)]
            /\ loc' = [loc EXCEPT ![p].hit = TRUE, ![p].store = TRUE,
                                   ![p].seen = files[out_of(p)].st]
       ELSE /\ pc' = [pc EXCEPT ![p] = IF req[p].name.ext \in VIDEO_EXTS
                                         THEN "probe" ELSE "img_decode"]
            /\ res' = res
            /\ loc' = loc
    /\ UNCHANGED <<req>>
    /\ UNCHANGED dbvars
    /\ UNCHANGED storevars

\* Local image, lines 589-595: Image.open, convert, resize.  A decode error
\* is no RuntimeError and no FileNotFoundError: it leaves optimize_endpoint
\* uncaught (500 from the framework).
ImgDecode(p) ==
    /\ pc[p] = "img_decode"
    /\ loc' = [loc EXCEPT ![p].work = @ + 1, ![p].store = TRUE]
    /\ \/ /\ pc' = [pc EXCEPT ![p] = "img_save"]
          /\ res' = res
       \/ /\ pc' = [pc EXCEPT ![p] = "done"]
          /\ res' = [res EXCEPT ![p].status = 500, ![p].detail = "uncaught"]
    /\ UNCHANGED <<req>>
    /\ UNCHANGED dbvars
    /\ UNCHANGED storevars

\* Local image, line 596: im.save(out_path) opens out_path for writing, which
\* creates or truncates it in place
ImgSaveOpen(p) ==
    /\ pc[p] = "img_save"
    /\ files' = put(files, out_of(p), written(files, out_of(p), p, "partial"))
    /\ pc' = [pc EXCEPT ![p] = "img_write"]
    /\ UNCHANGED <<GCS_ENABLED, bucket, tags, req, loc, res>>
    /\ UNCHANGED dbvars

\* Local image, lines 596-597: the encoder has written all bytes; the path is returned
ImgSaveFinish(p) ==
    /\ pc[p] = "img_write"
    /\ files' = put(files, out_of(p), [by |-> p, st |-> "complete", ver |-> files[out_of(p)].ver])
    /\ res' = [res EXCEPT ![p].status = 200, ![p].addr = out_of(p)]
    /\ pc' = [pc EXCEPT ![p] = "done"]
    /\ UNCHANGED <<GCS_ENABLED, bucket, tags, req, loc>>
    /\ UNCHANGED dbvars

\* Python's None, where an int is expected
None == -1

max_video_width == 1280

\* what running ffprobe gives: it cannot be started ("missing"), exits
\* non-zero ("error"), or exits 0 having printed out
ProbeRuns ==
    [exit : {"missing", "error"}, out : {""}]
        \cup [exit : {"ok"}, out : {"", "N/A", "1280", "1281"}]

\* int(out): ValueError (here None, see below) unless out is a number
int(out) ==
    CASE out = "1280" -> 1280
      [] out = "1281" -> 1281
      [] OTHER -> None

\* _probe_video_width, lines 385-399: check_output raises when ffprobe is
\* missing or exits non-zero, int raises on anything but a number; every
\* exception is caught and None returned, as for an empty output
_probe_video_width(run) ==
    IF run.exit # "ok" THEN None
    ELSE IF run.out = "" THEN None
    ELSE int(run.out)

\* a bug the filter could have: a source of max_video_width is scaled too
scale_filter_atleast(src_width) ==
    src_width # None /\ src_width # 0 /\ src_width >= max_video_width

\* lines 600-602 / 666-668: if src_width and src_width > max_video_width
scale_filter(src_width) ==
    src_width # None /\ src_width # 0 /\ src_width > max_video_width

\* Local video, lines 599-602: the source is probed and the filter set
Probe(p) ==
    /\ pc[p] = "probe"
    /\ \E run \in ProbeRuns :
           LET src_width == _probe_video_width(run)
           IN loc' = [loc EXCEPT ![p].vf = scale_filter(src_width), ![p].store = TRUE,
                                 ![p].src_width = src_width]
    /\ pc' = [pc EXCEPT ![p] = "ffmpeg"]
    /\ UNCHANGED <<req, res>>
    /\ UNCHANGED dbvars
    /\ UNCHANGED storevars

\* Local video, lines 603-611: subprocess.run starts ffmpeg -y ... out_path.
\* ffmpeg missing: RuntimeError (500).  A started ffmpeg either fails before
\* it opens its output, or creates / truncates out_path in place.
FfmpegStart(p) ==
    /\ pc[p] = "ffmpeg"
    /\ \/ /\ pc' = [pc EXCEPT ![p] = "done"]
          /\ res' = [res EXCEPT ![p].status = 500, ![p].detail = "ffmpeg not found"]
          /\ UNCHANGED <<files, loc>>
       \/ /\ pc' = [pc EXCEPT ![p] = "done"]
          /\ res' = [res EXCEPT ![p].status = 500, ![p].detail = "ffmpeg failed"]
          /\ loc' = [loc EXCEPT ![p].work = @ + 1]
          /\ files' = files
       \/ /\ pc' = [pc EXCEPT ![p] = "ffmpeg_run"]
          /\ files' = put(files, out_of(p), written(files, out_of(p), p, "partial"))
          /\ loc' = [loc EXCEPT ![p].work = @ + 1]
          /\ res' = res
    /\ UNCHANGED <<GCS_ENABLED, bucket, tags, req>>
    /\ UNCHANGED dbvars

\* Local video, lines 608-614: ffmpeg exits.  Exit 0: the output is complete
\* and its path returned.  Non-zero exit: RuntimeError (500); the output
\* file ffmpeg was writing stays where it is.
FfmpegExit(p) ==
    /\ pc[p] = "ffmpeg_run"
    /\ \/ /\ files' = put(files, out_of(p),
                          [by |-> p, st |-> "complete", ver |-> files[out_of(p)].ver])
          /\ res' = [res EXCEPT ![p].status = 200, ![p].addr = out_of(p)]
       \/ /\ files' = files
          /\ res' = [res EXCEPT ![p].status = 500, ![p].detail = "ffmpeg failed"]
    /\ pc' = [pc EXCEPT ![p] = "done"]
    /\ UNCHANGED <<GCS_ENABLED, bucket, tags, req, loc>>
    /\ UNCHANGED dbvars

\* GCS, lines 626-636: an existing optimized blob is returned.  The signed URL
\* does not start with "gs://", so optimize_endpoint (lines 725-731) answers
\* 200 with the download route of the optimized object.
GcsOptCheck(p) ==
    /\ pc[p] = "gcs_opt_check"
    /\ IF req[p].gcs # "ok"
       THEN /\ pc' = [pc EXCEPT ![p] = "done"]
            /\ res' = [res EXCEPT ![p].status = 500,
                          ![p].detail = IF req[p].gcs = "nobucket"
                                        THEN "GCS_BUCKET env var not set"
                                        ELSE "uncaught"]
            /\ loc' = loc
       ELSE IF deriv_exists(bucket, out_of(p))
       THEN /\ pc' = [pc EXCEPT ![p] = "done"]
            /\ res' = [res EXCEPT ![p].status = 200, ![p].addr = out_of(p)]
            /\ loc' = [loc EXCEPT ![p].hit = TRUE, ![p].store = TRUE,
                                   ![p].seen = bucket[out_of(p)].st]
       ELSE /\ pc' = [pc EXCEPT ![p] = "gcs_src_check"]
            /\ res' = res
            /\ loc' = loc
    /\ UNCHANGED <<req>>
    /\ UNCHANGED dbvars
    /\ UNCHANGED storevars

\* GCS, lines 639-642: FileNotFoundError when the source blob does not exist
GcsSrcCheck(p) ==
    /\ pc[p] = "gcs_src_check"
    /\ IF src_of(p) \in DOMAIN bucket
       THEN /\ pc' = [pc EXCEPT ![p] = "gcs_work"]
            /\ res' = res
       ELSE /\ pc' = [pc EXCEPT ![p] = "done"]
            /\ res' = [res EXCEPT ![p].status = 404, ![p].detail = "source file not found"]
    /\ UNCHANGED <<req, loc>>
    /\ UNCHANGED dbvars
    /\ UNCHANGED storevars

\* GCS, lines 644-681: the source is downloaded into a temporary directory
\* and resized or transcoded there; every failure is a RuntimeError (500)
GcsWork(p) ==
    /\ pc[p] = "gcs_work"
    /\ \E run \in ProbeRuns :
           LET src_width == IF req[p].name.ext \in VIDEO_EXTS
                            THEN _probe_video_width(run) ELSE None
           IN loc' = [loc EXCEPT ![p].work = @ + 1, ![p].store = TRUE,
                                 ![p].vf = (req[p].name.ext \in VIDEO_EXTS
                                            /\ scale_filter(src_width)),
                                 ![p].src_width = src_width]
    /\ \/ /\ pc' = [pc EXCEPT ![p] = "gcs_upload"]
          /\ res' = res
       \/ /\ pc' = [pc EXCEPT ![p] = "done"]
          /\ res' = [res EXCEPT ![p].status = 500, ![p].detail = "optimize failed"]
    /\ UNCHANGED <<req>>
    /\ UNCHANGED dbvars
    /\ UNCHANGED storevars

\* GCS, lines 683-709: the finished file is uploaded as the optimized blob
\* (an upload creates or replaces the whole object), its address returned
GcsUpload(p) ==
    /\ pc[p] = "gcs_upload"
    /\ bucket' = put(bucket, out_of(p), written(bucket, out_of(p), p, "complete"))
    /\ res' = [res EXCEPT ![p].status = 200, ![p].addr = out_of(p)]
    /\ pc' = [pc EXCEPT ![p] = "done"]
    /\ UNCHANGED <<GCS_ENABLED, files, tags, req, loc>>
    /\ UNCHANGED dbvars

\* _probe_video_width line 394 (subprocess.check_output) and lines 607 / 669
\* (subprocess.run): the calls pass no timeout=, so they return only when the
\* external process exits.  A process that never exits leaves the request in
\* the call: no step of the code leads out of "hung".
SubprocessHang(p) ==
    /\ \/ pc[p] \in {"probe", "ffmpeg_run"}
       \/ pc[p] = "gcs_work" /\ req[p].name.ext \in VIDEO_EXTS
    /\ pc' = [pc EXCEPT ![p] = "hung"]
    /\ UNCHANGED <<req, loc, res>>
    /\ UNCHANGED dbvars
    /\ UNCHANGED storevars

Optimize(p) ==
    \/ OptSrcCheck(p) \/ OptOutCheck(p)
    \/ ImgDecode(p) \/ ImgSaveOpen(p) \/ ImgSaveFinish(p)
    \/ Probe(p) \/ FfmpegStart(p) \/ FfmpegExit(p)
    \/ GcsOptCheck(p) \/ GcsSrcCheck(p) \/ GcsWork(p) \/ GcsUpload(p)
    \/ SubprocessHang(p)

Authorize(p) ==
    \/ VerifyLookup(p) \/ UsageInsert(p) \/ UsageUpdate(p)
    \/ UsageSelect(p) \/ UsageLimit(p)

\* ----------------------------------------- app.py: secure_name, character level
\* A string is a sequence of one-character strings.

\* the longest name secure_name is applied to
MaxNameLen == 3

\* the characters of the inputs: a letter, the dot, the path separator, and
\* "$" for a character outside [a-zA-Z0-9-._] (a blank, a backslash, ...)
Chars == {"a", ".", "/", "$"}

\* the characters _filename_re (line 92) leaves alone: [a-zA-Z0-9\-\._]
SafeChars ==
    {"a", "b", "c", "d", "e", "f", "g", "h", "i", "j", "k", "l", "m", "n", "o", "p", "q",
     "r", "s", "t", "u", "v", "w", "x", "y", "z",
     "A", "B", "C", "D", "E", "F", "G", "H", "I", "J", "K", "L", "M", "N", "O", "P", "Q",
     "R", "S", "T", "U", "V", "W", "X", "Y", "Z",
     "0", "1", "2", "3", "4", "5", "6", "7", "8", "9", "-", ".", "_"}

Strings(n) == UNION {[1..k -> Chars] : k \in 0..n}

\* s.split("/")
RECURSIVE split(_)
split(s) ==
    IF s = << >> THEN << << >> >>
    ELSE LET r == split(Tail(s)) IN
         IF Head(s) = "/" THEN << << >> >> \o r
         ELSE << <<Head(s)>> \o Head(r) >> \o Tail(r)

\* the parts pathlib keeps of a relative or absolute POSIX path, the root
\* left out: empty components and "." components are dropped, ".." is kept
is_part(seg) == seg # << >> /\ seg # <<".">>
path_parts(s) == SelectSeq(split(s), is_part)

\* Path(name).name: the last part, "" when there is none
path_name(s) ==
    LET ps == path_parts(s) IN IF ps = << >> THEN << >> ELSE ps[Len(ps)]

\* _filename_re.sub("_", name)
filename_sub(s) == [i \in 1..Len(s) |-> IF s[i] \in SafeChars THEN s[i] ELSE "_"]

\* secure_name, lines 94-101
secure_name(name) ==
    IF name = << >> THEN <<"f", "i", "l", "e">>
    ELSE filename_sub(path_name(name))

\* one application of secure_name to the string the request carries
SecureName(p) ==
    /\ pc[p] = "idle"
    /\ req[p].op = "secure_name"
    /\ res' = [res EXCEPT ![p].detail = secure_name(req[p].name)]
    /\ pc' = [pc EXCEPT ![p] = "done"]
    /\ UNCHANGED <<req, loc>>
    /\ UNCHANGED dbvars
    /\ UNCHANGED storevars

\* ------------------------------- app.py: the Local paths, character level
\* A path value is [abs, parts]: whether it is absolute, and its parts (each
\* a string).  A resolved path is the sequence of its parts from the root.

\* the deepest path a download request names
MaxPathDepth == 3

\* str.lower() on the characters of the model
lower(s) == [i \in 1..Len(s) |-> IF s[i] = "A" THEN "a" ELSE s[i]]

\* Path(s)
Path(s) == [abs |-> s # << >> /\ Head(s) = "/", parts |-> path_parts(s)]

\* a / b: an absolute right operand replaces the left one
joinpath(a, b) == IF b.abs THEN b ELSE [abs |-> a.abs, parts |-> a.parts \o b.parts]

\* the working directory of the server and BASE_UPLOAD_DIR = Path("uploads") (line 63)
CWD == << <<"s", "r", "v">> >>
BASE_UPLOAD_DIR == [abs |-> FALSE, parts |-> << <<"u", "p", "l", "o", "a", "d", "s">> >>]

\* Path.resolve() without symbolic links: made absolute, ".." steps up (the
\* root is its own parent)
RECURSIVE collapse(_, _)
collapse(done, rest) ==
    IF rest = << >> THEN done
    ELSE IF Head(rest) = <<".", ".">>
    THEN collapse(IF done = << >> THEN << >> ELSE SubSeq(done, 1, Len(done) - 1), Tail(rest))
    ELSE collapse(Append(done, Head(rest)), Tail(rest))

resolve(a) == collapse(<< >>, IF a.abs THEN a.parts ELSE CWD \o a.parts)

\* str() of a resolved path
RECURSIVE path_str(_)
path_str(parts) ==
    IF parts = << >> THEN << >> ELSE <<"/">> \o Head(parts) \o path_str(Tail(parts))

\* a.startswith(b) on strings
str_startswith(a, b) == Len(b) <= Len(a) /\ SubSeq(a, 1, Len(b)) = b

\* the resolved path x lies below the resolved directory d
below(x, d) == Len(x) > Len(d) /\ SubSeq(x, 1, Len(d)) = d

is_file(fs, x) == x \in DOMAIN fs
is_dir(fs, x) == \E y \in DOMAIN fs : below(y, x)

\* BASE_UPLOAD_DIR / company_safe / survey_safe
target_dir(company, survey) ==
    joinpath(joinpath(BASE_UPLOAD_DIR, Path(lower(secure_name(company)))),
             Path(lower(secure_name(survey))))

\* the files on disk: the key database in the uploads directory, one file in
\* each of the surveys s1 and s10 of company a and s1 of company b, one outside
UPLOADS == resolve(BASE_UPLOAD_DIR)
TreeFiles ==
    {UPLOADS \o << <<"a", "u", "t", "h", ".", "d", "b">> >>,
     UPLOADS \o << <<"a">>, <<"s", "1">>, <<"f">> >>,
     UPLOADS \o << <<"a">>, <<"s", "1", "0">>, <<"g">> >>,
     UPLOADS \o << <<"b">>, <<"s", "1">>, <<"f">> >>,
     CWD \o << <<"g">> >>}

\* the path parameters of the requests
CompanyInputs == {<<"a">>, <<"A">>, <<"b">>, <<".", ".">>}
SurveyInputs == {<<"s", "1">>, <<"s", "1", "0">>, <<".", ".">>}
PathSegs == {<<".", ".">>, <<"f">>, <<"g">>, <<"s", "1", "0">>,
             <<"a", "u", "t", "h", ".", "d", "b">>}
\* {path:path}: up to MaxPathDepth segments, with or without a leading "/"
PathInputs ==
    UNION {{Tail(path_str(ps)), path_str(ps)} :
              ps \in UNION {[1..k -> PathSegs] : k \in 1..MaxPathDepth}}
\* {filename}: one segment
FileInputs == PathSegs

\* the companies that hold a key: register_post (line 138) stores one under
\* secure_name(company).lower(), and verify_api_key (line 118) compares the
\* company of the request with it as it is
Registered == {lower(secure_name(c)) : c \in CompanyInputs}

\* download_file lines 946-959, Local: the resolved candidate is served when
\* str(candidate) starts with str(base_resolved) and it is a file
DownloadLocal(p) ==
    /\ pc[p] = "idle"
    /\ \E company \in CompanyInputs, survey \in SurveyInputs, path \in PathInputs :
         LET candidate == resolve(joinpath(target_dir(company, survey), Path(path)))
             base_resolved == resolve(target_dir(company, survey))
             invalid == ~str_startswith(path_str(candidate), path_str(base_resolved))
         IN /\ req' = [req EXCEPT ![p] = [NoReq EXCEPT !.op = "download", !.company = company,
                                                        !.survey = survey, !.name = path]]
            /\ res' = [res EXCEPT ![p].status = IF invalid THEN 400
                                                ELSE IF ~is_file(files, candidate) THEN 404
                                                ELSE 200,
                                  ![p].addr = IF ~invalid /\ is_file(files, candidate)
                                              THEN candidate ELSE << >>]
            /\ loc' = [loc EXCEPT ![p].touched = IF invalid THEN {} ELSE {candidate}]
    /\ pc' = [pc EXCEPT ![p] = "done"]
    /\ UNCHANGED dbvars
    /\ UNCHANGED storevars

\* Path(name).suffix and Path(name).stem of a final component: the suffix
\* starts at the last dot when that dot is neither the first nor the last
\* character
last_dot(name) ==
    LET D == {i \in 1..Len(name) : name[i] = "."} IN
    IF D = {} THEN 0 ELSE CHOOSE i \in D : \A j \in D : j <= i
name_suffix(name) ==
    LET k == last_dot(name) IN
    IF 1 < k /\ k < Len(name) THEN SubSeq(name, k, Len(name)) ELSE << >>
name_stem(name) == SubSeq(name, 1, Len(name) - Len(name_suffix(name)))

\* VIDEO_EXTS (line 67) as strings of characters
VIDEO_EXT_CHARS ==
    {<<".", "m", "p", "4">>, <<".", "w", "e", "b", "m">>, <<".", "o", "g", "g">>,
     <<".", "m", "o", "v">>, <<".", "m", "4", "v">>, <<".", "a", "v", "i">>,
     <<".", "f", "l", "v">>, <<".", "m", "k", "v">>}

\* str(counter), for the counters the collision loop reaches here
counter_str(n) == << <<"1", "2", "3", "4", "5", "6", "7", "8", "9">>[n] >>

\* upload_file lines 272-278: the first of base.ext, base_1.ext, ... in the
\* directory that does not exist
RECURSIVE free_path(_, _, _, _)
free_path(fs, dir, name, counter) ==
    LET cand == IF counter = 0 THEN name
                ELSE name_stem(name) \o <<"_">> \o counter_str(counter) \o name_suffix(name)
        t == resolve(joinpath(dir, Path(cand)))
    IN IF (is_file(fs, t) \/ is_dir(fs, t)) /\ counter < 9
       THEN free_path(fs, dir, name, counter + 1)
       ELSE t

\* upload_file lines 253-281, Local, for a caller that holds the key of the
\* company: the bytes are written to target_dir / f"{user_safe}_{desired_name}"
upload_local(p, company, survey, user_id, filename) ==
    /\ pc[p] = "idle"
    /\ LET user_safe == secure_name(user_id)
           cleaned == secure_name(filename)
           desired_name == IF "." \notin {cleaned[i] : i \in 1..Len(cleaned)}
                           THEN cleaned \o <<".", "j", "p", "e", "g">> ELSE cleaned
           target_path == free_path(files, target_dir(company, survey),
                                    user_safe \o <<"_">> \o desired_name, 0)
       IN /\ req' = [req EXCEPT ![p] = [NoReq EXCEPT !.op = "upload", !.company = company,
                                                      !.survey = survey, !.name = filename,
                                                      !.user_id = user_id]]
          /\ files' = put(files, target_path, written(files, target_path, p, "complete"))
          /\ res' = [res EXCEPT ![p].status = 200, ![p].addr = target_path]
          /\ loc' = [loc EXCEPT ![p].touched = {target_path}]
    /\ pc' = [pc EXCEPT ![p] = "done"]
    /\ UNCHANGED <<GCS_ENABLED, bucket, tags>>
    /\ UNCHANGED dbvars

UploadLocal(p) ==
    \E company \in CompanyInputs \cap Registered, survey \in SurveyInputs,
       user_id \in {<<"u">>, <<".", ".">>}, filename \in FileInputs :
        upload_local(p, company, survey, user_id, filename)

\* files_json lines 337-348: with a user_id, the files whose name starts with
\* f"{user_safe}_"; an absent or empty user_id filters nothing
owner_match(name, user_id) ==
    user_id = << >> \/ str_startswith(name, secure_name(user_id) \o <<"_">>)

\* files_json lines 329-350 for a caller that holds the key of the company:
\* the files directly in target_dir, [] when it is no directory
list_local(p, company, survey, user_id) ==
    /\ pc[p] = "idle"
    /\ LET d == resolve(target_dir(company, survey)) IN
          /\ req' = [req EXCEPT ![p] = [NoReq EXCEPT !.op = "files_json", !.company = company,
                                                      !.survey = survey, !.user_id = user_id]]
          /\ res' = [res EXCEPT ![p].status = 200,
                                ![p].listing = {x \in DOMAIN files :
                                                   /\ below(x, d) /\ Len(x) = Len(d) + 1
                                                   /\ owner_match(x[Len(x)], user_id)}]
          /\ loc' = [loc EXCEPT ![p].touched = IF is_dir(files, d) THEN {d} ELSE {}]
    /\ pc' = [pc EXCEPT ![p] = "done"]
    /\ UNCHANGED dbvars
    /\ UNCHANGED storevars

ListLocal(p) ==
    \E company \in CompanyInputs \cap Registered, survey \in SurveyInputs :
        list_local(p, company, survey, << >>)

\* the owner ids and file names of SpecOwner
OwnerIds == {<<"a">>, <<"a", "_", "b">>, <<"b">>}
OwnedFiles == {<<"f">>, <<"b", "_", "f">>}

UploadOwned(p) ==
    \E user_id \in OwnerIds, filename \in OwnedFiles :
        upload_local(p, <<"a">>, <<"s", "1">>, user_id, filename)

ListOwned(p) ==
    \E user_id \in OwnerIds : list_local(p, <<"a">>, <<"s", "1">>, user_id)

\* optimize_endpoint and optimize_media_and_cache lines 572-614, Local, with
\* a derivation that succeeds: the source target_dir / filename is read and
\* target_dir / "optimized" / opt_name written unless it exists; a source
\* that is a directory cannot be opened (500)
OptimizeLocal(p) ==
    /\ pc[p] = "idle"
    /\ \E company \in CompanyInputs, survey \in SurveyInputs, filename \in FileInputs :
         LET dir == target_dir(company, survey)
             stem == name_stem(path_name(filename))
             ext == lower(name_suffix(path_name(filename)))
             opt == <<"o", "p", "t", "_">> \o stem \o
                    (IF ext \in VIDEO_EXT_CHARS THEN <<".", "m", "p", "4">>
                                                ELSE <<".", "j", "p", "g">>)
             src == resolve(joinpath(dir, Path(filename)))
             out_path == resolve(joinpath(joinpath(dir, Path(<<"o", "p", "t", "i", "m", "i", "z", "e", "d">>)),
                                          Path(opt)))
         IN /\ req' = [req EXCEPT ![p] = [NoReq EXCEPT !.op = "optimize", !.company = company,
                                                        !.survey = survey, !.name = filename]]
            /\ IF ~(is_file(files, src) \/ is_dir(files, src))
               THEN /\ res' = [res EXCEPT ![p].status = 404]
                    /\ loc' = loc
                    /\ files' = files
               ELSE IF is_file(files, out_path)
               THEN /\ res' = [res EXCEPT ![p].status = 200, ![p].addr = out_path]
                    /\ loc' = [loc EXCEPT ![p].touched = {out_path}]
                    /\ files' = files
               ELSE IF is_dir(files, src)
               THEN /\ res' = [res EXCEPT ![p].status = 500, ![p].detail = "uncaught"]
                    /\ loc' = [loc EXCEPT ![p].touched = {src}]
                    /\ files' = files
               ELSE /\ res' = [res EXCEPT ![p].status = 200, ![p].addr = out_path]
                    /\ loc' = [loc EXCEPT ![p].touched = {src, out_path}]
                    /\ files' = put(files, out_path, written(files, out_path, p, "complete"))
    /\ pc' = [pc EXCEPT ![p] = "done"]
    /\ UNCHANGED <<GCS_ENABLED, bucket, tags>>
    /\ UNCHANGED dbvars

\* ------------------------------------------------------------ signed URLs

\* the default identity (application default credentials) either holds a
\* private key and signs, or cannot sign
AdcStates == {"signs", "cannot_sign"}
\* the environment variable GCP_SA_KEY: not set, not JSON of a service
\* account, a service account whose key does not sign, a valid one
SaKeyStates == {"absent", "unparsable", "cannot_sign", "valid"}

\* get_signed_url (storage_adapter.py 207-268), USE_GCS: the default signing,
\* and when it raises the signing with the credentials of GCP_SA_KEY;
\* "raise" when the URL cannot be signed
get_signed_url(adc, sa_key) ==
    IF adc = "signs" THEN "url"
    ELSE IF sa_key = "valid" THEN "url"
    ELSE "raise"

\* download_file lines 927-944: blob.generate_signed_url(version="v4", ...)
\* with the default identity only; any exception is answered 500
download_signed_url(adc, sa_key) ==
    IF adc = "signs" THEN "url" ELSE "raise"

BeginSign(p) ==
    /\ pc[p] = "idle"
    /\ \E op \in {"get_signed_url", "download"}, c \in Companies, sv \in Surveys,
          f \in RequestNames, adc \in AdcStates, sa_key \in SaKeyStates :
           req' = [req EXCEPT ![p] = [NoReq EXCEPT !.op = op, !.company = c, !.survey = sv,
                                                   !.name = f, !.adc = adc,
                                                   !.sa_key = sa_key]]
    /\ pc' = [pc EXCEPT ![p] = "sign"]
    /\ UNCHANGED <<loc, res>>
    /\ UNCHANGED dbvars
    /\ UNCHANGED storevars

\* a call of get_signed_url for the object (upload_file line 292, files_json
\* line 360): the URL, or the exception
GetSignedUrl(p) ==
    /\ pc[p] = "sign"
    /\ req[p].op = "get_signed_url"
    /\ GCS_ENABLED
    /\ LET url == get_signed_url(req[p].adc, req[p].sa_key) IN
         res' = [res EXCEPT ![p].status = IF url = "url" THEN 200 ELSE 500,
                            ![p].addr = IF url = "url"
                                        THEN objpath(req[p].company, req[p].survey, req[p].name)
                                        ELSE << >>]
    /\ pc' = [pc EXCEPT ![p] = "done"]
    /\ UNCHANGED <<req, loc>>
    /\ UNCHANGED dbvars
    /\ UNCHANGED storevars

\* download_file lines 905-944, GCS: 404 when the blob does not exist, else
\* a redirect to the signed URL, or 500 when signing raises
DownloadGcs(p) ==
    /\ pc[p] = "sign"
    /\ req[p].op = "download"
    /\ GCS_ENABLED
    /\ LET path == objpath(req[p].company, req[p].survey, req[p].name)
           url == download_signed_url(req[p].adc, req[p].sa_key)
       IN IF path \notin DOMAIN bucket
          THEN /\ res' = [res EXCEPT ![p].status = 404]
               /\ loc' = loc
          ELSE /\ res' = [res EXCEPT ![p].status = IF url = "url" THEN 302 ELSE 500,
                                     ![p].addr = IF url = "url" THEN path ELSE << >>]
               /\ loc' = [loc EXCEPT ![p].store = TRUE]
    /\ pc' = [pc EXCEPT ![p] = "done"]
    /\ UNCHANGED <<req>>
    /\ UNCHANGED dbvars
    /\ UNCHANGED storevars

\* ------------------------------------------------ logs_util.py: log_event

\* log_event (logs_util.py 30-43) connects to uploads/logs.db, INSERTs and
\* commits with no try/except, and the handlers call it unguarded: when the
\* log database is locked or unavailable the sqlite3 error leaves the handler
\* (optimize_endpoint catches FileNotFoundError and RuntimeError only) and
\* the request is answered 500.  The call sites that open a handler:
\* download_file line 903, files_json line 332, optimize_endpoint line 718.
LogFail(p) ==
    /\ pc[p] \in {"download", "list_dir", "opt_src_check", "gcs_opt_check"}
    /\ res' = [res EXCEPT ![p].status = 500, ![p].detail = "uncaught"]
    /\ loc' = [loc EXCEPT ![p].logfail = TRUE]
    /\ pc' = [pc EXCEPT ![p] = "done"]
    /\ UNCHANGED <<req>>
    /\ UNCHANGED dbvars
    /\ UNCHANGED storevars

\* upload_file lines 280-287: log_event is called once the bytes are stored
UploadLogFail(p) ==
    /\ pc[p] = IF GCS_ENABLED THEN "up_store" ELSE "up_write"
    /\ LET path == objpath(req[p].company, req[p].survey, req[p].name)
       IN IF GCS_ENABLED
          THEN /\ bucket' = put(bucket, path, written(bucket, path, p, "complete"))
               /\ files' = files
          ELSE /\ files' = put(files, path, written(files, path, p, "complete"))
               /\ bucket' = bucket
    /\ res' = [res EXCEPT ![p].status = 500, ![p].detail = "uncaught"]
    /\ loc' = [loc EXCEPT ![p].store = TRUE, ![p].logfail = TRUE]
    /\ pc' = [pc EXCEPT ![p] = "done"]
    /\ UNCHANGED <<GCS_ENABLED, tags, req>>
    /\ UNCHANGED dbvars

\* -------------------------------------------------- app.py: register_post

\* the tokens generate_api_key (secrets.token_urlsafe, line 128) may return
ApiTokens == {"T1", "T2", "T3"}
\* the company field of the registration form
RegisterInputs == {<<"a">>, <<"A">>, <<"b">>}
\* the daily limit register_post stores (lines 170-174)
REGISTER_DAILY_LIMIT == 500

\* a bug register_post could have: the existing key of the company is not found
company_keys_none(table, company) == {}

\* SELECT api_key FROM api_keys WHERE company = ? (line 163)
company_keys(table, company) == {k \in DOMAIN table : table[k].company = company}

\* INSERT INTO api_keys (company, api_key, daily_limit) (lines 172-174): the
\* failed import leaves the function-local name create_api_key unbound, so
\* the call of line 170 raises and the raw INSERT runs; api_key is UNIQUE
\* and company is not
api_keys_insert(table, company, api_key, daily_limit) ==
    IF api_key \in DOMAIN table
    THEN table
    ELSE put(table, api_key, [company |-> company, daily_limit |-> daily_limit])

BeginRegister(p) ==
    /\ pc[p] = "idle"
    /\ \E company \in RegisterInputs :
           req' = [req EXCEPT ![p] = [NoReq EXCEPT !.op = "register",
                                                   !.company = lower(secure_name(company))]]
    /\ pc' = [pc EXCEPT ![p] = "reg_select"]
    /\ UNCHANGED <<loc, res>>
    /\ UNCHANGED dbvars
    /\ UNCHANGED storevars

\* register_post lines 145-165: auth has no get_key_record_for_company, so
\* the import fails and the fallback looks the company up in api_keys;
\* fetchone() gives the key of a matching row
RegisterSelect(p) ==
    /\ pc[p] = "reg_select"
    /\ IF company_keys(api_keys, req[p].company) # {}
       THEN /\ \E k \in company_keys(api_keys, req[p].company) :
                  res' = [res EXCEPT ![p].status = 200, ![p].detail = k,
                                     ![p].limit = api_keys[k].daily_limit]
            /\ pc' = [pc EXCEPT ![p] = "done"]
       ELSE /\ res' = res
            /\ pc' = [pc EXCEPT ![p] = "reg_create"]
    /\ UNCHANGED <<req, loc>>
    /\ UNCHANGED dbvars
    /\ UNCHANGED storevars

\* register_post lines 167-175: a new token is generated and stored with
\* daily limit 500
RegisterCreate(p) ==
    /\ pc[p] = "reg_create"
    /\ \E k \in ApiTokens \ DOMAIN api_keys :
         /\ api_keys' = api_keys_insert(api_keys, req[p].company, k, REGISTER_DAILY_LIMIT)
         /\ res' = [res EXCEPT ![p].status = 200, ![p].detail = k,
                               ![p].limit = REGISTER_DAILY_LIMIT]
    /\ pc' = [pc EXCEPT ![p] = "done"]
    /\ UNCHANGED <<usage, today, req, loc>>
    /\ UNCHANGED storevars

\* ------------------------- app.py: the company of a key, character level

\* the company strings register_post can bind a key to (line 138)
BoundCompanies == {lower(secure_name(x)) : x \in Strings(MaxNameLen)}

\* the company segment of a request path: a non-empty string without "/"
CompanySegments ==
    {x \in Strings(MaxNameLen) : x # << >> /\ "/" \notin {x[i] : i \in 1..Len(x)}}
        \cup {<<"f", "i", "l", "e">>}

\* verify_api_key line 117: rec_company != company, on the raw path parameter
verify_company(rec_company, company) == rec_company = company

\* files_list_template lines 767-769: secure_name(rec[0]) != company_safe
list_company(rec_company, company) ==
    secure_name(rec_company) = lower(secure_name(company))

BeginKeyed(p) ==
    /\ pc[p] = "idle"
    /\ \E op \in {"upload", "files_json", "files_list"}, company \in CompanySegments,
          k \in DOMAIN api_keys :
           req' = [req EXCEPT ![p] = [NoReq EXCEPT !.op = op, !.company = company, !.key = k]]
    /\ pc' = [pc EXCEPT ![p] = "company"]
    /\ UNCHANGED <<loc, res>>
    /\ UNCHANGED dbvars
    /\ UNCHANGED storevars

\* verify_api_key lines 112-118 for an existing key, then the namespace
\* company_safe = secure_name(company).lower() the handler works in
\* (upload_file line 254, files_json line 330)
VerifyCompany(p) ==
    /\ pc[p] = "company"
    /\ req[p].op \in {"upload", "files_json"}
    /\ IF verify_company(api_keys[req[p].key].company, req[p].company)
       THEN /\ res' = [res EXCEPT ![p].status = 200,
                                  ![p].detail = lower(secure_name(req[p].company))]
            /\ loc' = [loc EXCEPT ![p].auth = TRUE]
       ELSE /\ res' = [res EXCEPT ![p].status = 403]
            /\ loc' = loc
    /\ pc' = [pc EXCEPT ![p] = "done"]
    /\ UNCHANGED <<req>>
    /\ UNCHANGED dbvars
    /\ UNCHANGED storevars

\* files_list_template lines 759-774 for an existing key
ListCompany(p) ==
    /\ pc[p] = "company"
    /\ req[p].op = "files_list"
    /\ IF list_company(api_keys[req[p].key].company, req[p].company)
       THEN /\ res' = [res EXCEPT ![p].status = 200,
                                  ![p].detail = lower(secure_name(req[p].company))]
            /\ loc' = [loc EXCEPT ![p].auth = TRUE]
       ELSE /\ res' = [res EXCEPT ![p].status = 403]
            /\ loc' = loc
    /\ pc' = [pc EXCEPT ![p] = "done"]
    /\ UNCHANGED <<req>>
    /\ UNCHANGED dbvars
    /\ UNCHANGED storevars

\* --------------------------------------------------------------- SpecQuota
\* NumCallers concurrent authorize calls against a key table whose limits
\* range over 0..MaxLimit; the usage table starts empty.

\* the key table after create_api_key("acme", "K1", l1), create_api_key("beta", "K2", l2)
KeyTable(l1, l2) ==
    ("K1" :> [company |-> "acme", daily_limit |-> l1]) @@
    ("K2" :> [company |-> "beta", daily_limit |-> l2])

InitKeys ==
    \E l1 \in 0..MaxLimit, l2 \in 0..MaxLimit : api_keys = KeyTable(l1, l2)

\* key tables for the specifications about the store: the quota of K1 is
\* exhausted from the first call on, or it is MaxLimit as that of K2
InitKeysStore ==
    \E l1 \in {0, MaxLimit} : api_keys = KeyTable(l1, MaxLimit)

InitQuota ==
    /\ InitKeys
    /\ usage = <<>>
    /\ today = 0
    /\ GCS_ENABLED = FALSE
    /\ files = << >>
    /\ bucket = << >>
    /\ tags = << >>
    /\ pc = [p \in QProcs |-> "idle"]
    /\ req = [p \in QProcs |-> NoReq]
    /\ loc = [p \in QProcs |-> NoLoc]
    /\ res = [p \in QProcs |-> NoRes]

NextQuota ==
    \/ \E p \in QProcs : BeginAuthorize(p)
    \/ \E p \in QProcs : VerifyLookup(p)
    \/ \E p \in QProcs : UsageInsert(p)
    \/ \E p \in QProcs : UsageUpdate(p)
    \/ \E p \in QProcs : UsageSelect(p)
    \/ \E p \in QProcs : UsageLimit(p)
    \/ DayRollover

SpecQuota == InitQuota /\ [][NextQuota]_vars

\* -------------------------------------------------------------------- Spec
\* NumRequests concurrent requests of any kind, against either backend, an
\* empty store and an empty usage table.

Init ==
    /\ InitKeysStore
    /\ usage = << >>
    /\ today = 0
    /\ GCS_ENABLED \in BOOLEAN
    /\ files = << >>
    /\ bucket = << >>
    /\ tags = << >>
    /\ pc = [p \in 1..NumRequests |-> "idle"]
    /\ req = [p \in 1..NumRequests |-> NoReq]
    /\ loc = [p \in 1..NumRequests |-> NoLoc]
    /\ res = [p \in 1..NumRequests |-> NoRes]

Next ==
    \/ \E p \in DOMAIN pc : BeginUpload(p)
    \/ \E p \in DOMAIN pc : BeginFilesJson(p)
    \/ \E p \in DOMAIN pc : BeginFilesList(p)
    \/ \E p \in DOMAIN pc : BeginDownload(p)
    \/ \E p \in DOMAIN pc : BeginOptimize(p)
    \/ \E p \in DOMAIN pc : Authorize(p)
    \/ \E p \in DOMAIN pc : UploadValidate(p)
    \/ \E p \in DOMAIN pc : UploadPick(p)
    \/ \E p \in DOMAIN pc : UploadStore(p)
    \/ \E p \in DOMAIN pc : FilesJsonList(p)
    \/ \E p \in DOMAIN pc : FilesListKey(p)
    \/ \E p \in DOMAIN pc : FilesListTemplate(p)
    \/ \E p \in DOMAIN pc : DownloadServe(p)
    \/ \E p \in DOMAIN pc : Optimize(p)

Spec == Init /\ [][Next]_vars

\* ----------------------------------------------------------------- SpecLog
\* The requests of Spec with a log database that may fail.

NextLog ==
    \/ \E p \in DOMAIN pc : BeginUpload(p)
    \/ \E p \in DOMAIN pc : BeginFilesJson(p)
    \/ \E p \in DOMAIN pc : BeginFilesList(p)
    \/ \E p \in DOMAIN pc : BeginDownload(p)
    \/ \E p \in DOMAIN pc : BeginOptimize(p)
    \/ \E p \in DOMAIN pc : Authorize(p)
    \/ \E p \in DOMAIN pc : UploadValidate(p)
    \/ \E p \in DOMAIN pc : UploadPick(p)
    \/ \E p \in DOMAIN pc : UploadStore(p)
    \/ \E p \in DOMAIN pc : FilesJsonList(p)
    \/ \E p \in DOMAIN pc : FilesListKey(p)
    \/ \E p \in DOMAIN pc : FilesListTemplate(p)
    \/ \E p \in DOMAIN pc : DownloadServe(p)
    \/ \E p \in DOMAIN pc : Optimize(p)
    \/ \E p \in DOMAIN pc : LogFail(p)
    \/ \E p \in DOMAIN pc : UploadLogFail(p)

SpecLog == Init /\ [][NextLog]_vars

\* -------------------------------------------------------------- SpecUpload
\* NumUploaders concurrent upload requests, against either backend.

InitUpload ==
    /\ InitKeysStore
    /\ usage = << >>
    /\ today = 0
    /\ GCS_ENABLED \in BOOLEAN
    /\ files = << >>
    /\ bucket = << >>
    /\ tags = << >>
    /\ pc = [p \in 1..NumUploaders |-> "idle"]
    /\ req = [p \in 1..NumUploaders |-> NoReq]
    /\ loc = [p \in 1..NumUploaders |-> NoLoc]
    /\ res = [p \in 1..NumUploaders |-> NoRes]

NextUpload ==
    \/ \E p \in DOMAIN pc : BeginUpload(p)
    \/ \E p \in DOMAIN pc : Authorize(p)
    \/ \E p \in DOMAIN pc : UploadValidate(p)
    \/ \E p \in DOMAIN pc : UploadPick(p)
    \/ \E p \in DOMAIN pc : UploadStore(p)

SpecUpload == InitUpload /\ [][NextUpload]_vars

\* ----------------------------------------------------------- SpecUploadSeq
\* NumSeqUploads upload requests made one after the other: request p begins
\* when the requests before it have returned.  The daily limits are large
\* enough to let all of them pass.

InitUploadSeq ==
    /\ api_keys = KeyTable(NumSeqUploads, NumSeqUploads)
    /\ usage = << >>
    /\ today = 0
    /\ GCS_ENABLED \in BOOLEAN
    /\ files = << >>
    /\ bucket = << >>
    /\ tags = << >>
    /\ pc = [p \in 1..NumSeqUploads |-> "idle"]
    /\ req = [p \in 1..NumSeqUploads |-> NoReq]
    /\ loc = [p \in 1..NumSeqUploads |-> NoLoc]
    /\ res = [p \in 1..NumSeqUploads |-> NoRes]

BeginUploadAlone(p) ==
    /\ \A q \in DOMAIN pc : q < p => pc[q] = "done"
    /\ BeginUpload(p)

NextUploadSeq ==
    \/ \E p \in DOMAIN pc : BeginUploadAlone(p)
    \/ \E p \in DOMAIN pc : Authorize(p)
    \/ \E p \in DOMAIN pc : UploadValidate(p)
    \/ \E p \in DOMAIN pc : UploadPick(p)
    \/ \E p \in DOMAIN pc : UploadStore(p)

SpecUploadSeq == InitUploadSeq /\ [][NextUploadSeq]_vars

\* --------------------------------------------------------------- SpecDeriv
\* NumDerivers concurrent derivative requests, against either backend; the
\* store holds any set of the source files, uploaded earlier, and no derivative.

seed == [by |-> 0, st |-> "complete", ver |-> 1]

SeedStores ==
    {[x \in {objpath("acme", "s1", f) : f \in S} |-> seed] : S \in SUBSET StoredNames}

InitDeriv ==
    /\ api_keys = KeyTable(MaxLimit, MaxLimit)
    /\ usage = << >>
    /\ today = 0
    /\ GCS_ENABLED \in BOOLEAN
    /\ \E st \in SeedStores :
          /\ files = IF GCS_ENABLED THEN << >> ELSE st
          /\ bucket = IF GCS_ENABLED THEN st ELSE << >>
    /\ tags = << >>
    /\ pc = [p \in 1..NumDerivers |-> "idle"]
    /\ req = [p \in 1..NumDerivers |-> NoReq]
    /\ loc = [p \in 1..NumDerivers |-> NoLoc]
    /\ res = [p \in 1..NumDerivers |-> NoRes]

NextDeriv ==
    \/ \E p \in DOMAIN pc : BeginOptimize(p)
    \/ \E p \in DOMAIN pc : Optimize(p)

SpecDeriv == InitDeriv /\ [][NextDeriv]_vars

\* the same requests where every request that can take a step of its handler
\* eventually takes one (the server runs each request it has accepted)
SpecDerivFair ==
    /\ InitDeriv
    /\ [][NextDeriv]_vars
    /\ \A p \in 1..NumDerivers : WF_vars(Optimize(p))

\* ----------------------------------------------------------- SpecDerivPair
\* The derivative requests of SpecDeriv against a store that holds every
\* file a request may name, among them u1_a.jpg and u1_a.png, and no
\* derivative.

InitDerivPair ==
    /\ api_keys = KeyTable(MaxLimit, MaxLimit)
    /\ usage = << >>
    /\ today = 0
    /\ GCS_ENABLED \in BOOLEAN
    /\ LET st == [x \in {objpath("acme", "s1", f) : f \in RequestNames} |-> seed]
       IN /\ files = IF GCS_ENABLED THEN << >> ELSE st
          /\ bucket = IF GCS_ENABLED THEN st ELSE << >>
    /\ tags = << >>
    /\ pc = [p \in 1..NumDerivers |-> "idle"]
    /\ req = [p \in 1..NumDerivers |-> NoReq]
    /\ loc = [p \in 1..NumDerivers |-> NoLoc]
    /\ res = [p \in 1..NumDerivers |-> NoRes]

SpecDerivPair == InitDerivPair /\ [][NextDeriv]_vars

\* ---------------------------------------------------------------- SpecName
\* secure_name applied to every string of up to MaxNameLen characters.

InitName ==
    /\ api_keys = KeyTable(MaxLimit, MaxLimit)
    /\ usage = << >>
    /\ today = 0
    /\ GCS_ENABLED = FALSE
    /\ files = << >>
    /\ bucket = << >>
    /\ tags = << >>
    /\ pc = <<"idle">>
    /\ \E x \in Strings(MaxNameLen) :
           req = << [NoReq EXCEPT !.op = "secure_name", !.name = x] >>
    /\ loc = <<NoLoc>>
    /\ res = <<NoRes>>

NextName == \E p \in DOMAIN pc : SecureName(p)

SpecName == InitName /\ [][NextName]_vars

\* ---------------------------------------------------------------- SpecPath
\* One Local request with arbitrary path parameters against the files on disk.

InitPath ==
    /\ api_keys = KeyTable(MaxLimit, MaxLimit)
    /\ usage = << >>
    /\ today = 0
    /\ GCS_ENABLED = FALSE
    /\ files = [x \in TreeFiles |-> seed]
    /\ bucket = << >>
    /\ tags = << >>
    /\ pc = <<"idle">>
    /\ req = <<NoReq>>
    /\ loc = <<NoLoc>>
    /\ res = <<NoRes>>

NextPath ==
    \/ \E p \in DOMAIN pc : DownloadLocal(p)
    \/ \E p \in DOMAIN pc : UploadLocal(p)
    \/ \E p \in DOMAIN pc : ListLocal(p)
    \/ \E p \in DOMAIN pc : OptimizeLocal(p)

SpecPath == InitPath /\ [][NextPath]_vars

\* -------------------------------------------------------- SpecRegisterConc
\* NumCallers concurrent registrations, the key table starting empty: the
\* SELECT and the INSERT of one registration are two statements on the
\* shared database, and those of other registrations (of other worker
\* processes of the server) may run between them.

InitRegisterConc ==
    /\ api_keys = << >>
    /\ usage = << >>
    /\ today = 0
    /\ GCS_ENABLED = FALSE
    /\ files = << >>
    /\ bucket = << >>
    /\ tags = << >>
    /\ pc = [p \in 1..NumCallers |-> "idle"]
    /\ req = [p \in 1..NumCallers |-> NoReq]
    /\ loc = [p \in 1..NumCallers |-> NoLoc]
    /\ res = [p \in 1..NumCallers |-> NoRes]

NextRegisterConc ==
    \/ \E p \in DOMAIN pc : BeginRegister(p)
    \/ \E p \in DOMAIN pc : RegisterSelect(p)
    \/ \E p \in DOMAIN pc : RegisterCreate(p)

SpecRegisterConc == InitRegisterConc /\ [][NextRegisterConc]_vars

\* ---------------------------------------------------------- SpecUploadList
\* The requests of SpecUploadSeq with JSON listings among them: uploads and
\* listings made one after the other, against either backend.

BeginFilesJsonAlone(p) ==
    /\ \A q \in DOMAIN pc : q < p => pc[q] = "done"
    /\ BeginFilesJson(p)

NextUploadList ==
    \/ \E p \in DOMAIN pc : BeginUploadAlone(p)
    \/ \E p \in DOMAIN pc : BeginFilesJsonAlone(p)
    \/ \E p \in DOMAIN pc : Authorize(p)
    \/ \E p \in DOMAIN pc : UploadValidate(p)
    \/ \E p \in DOMAIN pc : UploadPick(p)
    \/ \E p \in DOMAIN pc : UploadStore(p)
    \/ \E p \in DOMAIN pc : FilesJsonList(p)

SpecUploadList == InitUploadSeq /\ [][NextUploadList]_vars

\* ------------------------------------------------------------- SpecBackend
\* One request that reads the store (a template listing, a download, a
\* derivative request) while the bucket answers, is not configured, or
\* raises; the store holds any set of files uploaded earlier.

BeginFilesListGcs(p) ==
    /\ pc[p] = "idle"
    /\ \E c \in Companies, k \in ApiKeyInputs, sv \in Surveys, g \in GcsStates :
           req' = [req EXCEPT ![p] = [NoReq EXCEPT !.op = "files_list", !.company = c,
                                                   !.key = k, !.survey = sv, !.gcs = g]]
    /\ loc' = loc
    /\ pc' = [pc EXCEPT ![p] = "list_key"]
    /\ UNCHANGED <<res>>
    /\ UNCHANGED dbvars
    /\ UNCHANGED storevars

BeginDownloadGcs(p) ==
    /\ pc[p] = "idle"
    /\ \E c \in Companies, sv \in Surveys, f \in RequestNames, g \in GcsStates :
           req' = [req EXCEPT ![p] = [NoReq EXCEPT !.op = "download", !.company = c,
                                                   !.survey = sv, !.name = f, !.gcs = g]]
    /\ loc' = loc
    /\ pc' = [pc EXCEPT ![p] = "download"]
    /\ UNCHANGED <<res>>
    /\ UNCHANGED dbvars
    /\ UNCHANGED storevars

BeginOptimizeGcs(p) ==
    /\ pc[p] = "idle"
    /\ \E c \in Companies, sv \in Surveys, f \in RequestNames, g \in GcsStates :
           req' = [req EXCEPT ![p] = [NoReq EXCEPT !.op = "optimize", !.company = c,
                                                   !.survey = sv, !.name = f, !.gcs = g]]
    /\ loc' = loc
    /\ pc' = [pc EXCEPT ![p] = IF GCS_ENABLED THEN "gcs_opt_check" ELSE "opt_src_check"]
    /\ UNCHANGED <<res>>
    /\ UNCHANGED dbvars
    /\ UNCHANGED storevars

InitBackend ==
    /\ api_keys = KeyTable(MaxLimit, MaxLimit)
    /\ usage = << >>
    /\ today = 0
    /\ GCS_ENABLED \in BOOLEAN
    /\ \E st \in SeedStores :
          /\ files = IF GCS_ENABLED THEN << >> ELSE st
          /\ bucket = IF GCS_ENABLED THEN st ELSE << >>
    /\ tags = << >>
    /\ pc = <<"idle">>
    /\ req = <<NoReq>>
    /\ loc = <<NoLoc>>
    /\ res = <<NoRes>>

NextBackend ==
    \/ \E p \in DOMAIN pc : BeginFilesListGcs(p)
    \/ \E p \in DOMAIN pc : BeginDownloadGcs(p)
    \/ \E p \in DOMAIN pc : BeginOptimizeGcs(p)
    \/ \E p \in DOMAIN pc : FilesListKey(p)
    \/ \E p \in DOMAIN pc : FilesListTemplate(p)
    \/ \E p \in DOMAIN pc : DownloadServe(p)
    \/ \E p \in DOMAIN pc : Optimize(p)

SpecBackend == InitBackend /\ [][NextBackend]_vars

\* --------------------------------------------------------------- SpecImage
\* The image branch of optimize_media_and_cache applied to a source of every
\* size of ImageWidths \X ImageHeights, in either backend.

target_img_width == 900

ImageWidths == {1, 450, 899, 900, 901, 1044, 1800, 1801}
ImageHeights == {1, 2, 145, 290, 900, 901, 1800}

\* the sizes for which the double (target_img_width / w) * h lies just below
\* the whole number target_img_width * h / w: 900 / 1044 is rounded down, and
\* its products with 145 and 290 are 124.99999999999999 and 249.99999999999997
RoundedBelow == {<<1044, 145>>, <<1044, 290>>}

\* new_h = int((target_img_width / w) * h), lines 593 / 657, in IEEE-754
\* doubles: where target_img_width * h / w is no whole number it is further
\* than 1 / w from one, the double product has the same integer part, and
\* int() truncates to it; where it is a whole number the product is this
\* number or, for the sizes of RoundedBelow, just below it
new_h(w, h) ==
    LET q == (target_img_width * h) \div w
    IN IF <<w, h>> \in RoundedBelow THEN q - 1 ELSE q

\* lines 591-594 / 655-658: the size the image is saved with
image_size(w, h) ==
    IF w > target_img_width THEN <<target_img_width, new_h(w, h)>> ELSE <<w, h>>

\* lines 588-597 / 652-663: Image.resize raises ValueError ("height and width
\* must be > 0") for a size with a zero; Local: the exception leaves
\* optimize_endpoint, which catches FileNotFoundError and RuntimeError only;
\* GCS: RuntimeError("image optimize failed"); status 500 both, and nothing
\* is saved.  Else the image is saved with image_size.
ImgResize(p) ==
    /\ pc[p] = "img"
    /\ LET size == image_size(req[p].w, req[p].h) IN
         IF size[1] < 1 \/ size[2] < 1
         THEN res' = [res EXCEPT ![p] = [status |-> 500, size |-> << >>]]
         ELSE res' = [res EXCEPT ![p] = [status |-> 200, size |-> size]]
    /\ pc' = [pc EXCEPT ![p] = "done"]
    /\ UNCHANGED <<req, loc>>
    /\ UNCHANGED dbvars
    /\ UNCHANGED storevars

InitImage ==
    /\ api_keys = KeyTable(MaxLimit, MaxLimit)
    /\ usage = << >>
    /\ today = 0
    /\ GCS_ENABLED \in BOOLEAN
    /\ files = << >>
    /\ bucket = << >>
    /\ tags = << >>
    /\ pc = <<"img">>
    /\ \E w \in ImageWidths, h \in ImageHeights :
           req = << [op |-> "optimize", w |-> w, h |-> h] >>
    /\ loc = <<NoLoc>>
    /\ res = << [status |-> 0, size |-> << >>] >>

NextImage == \E p \in DOMAIN pc : ImgResize(p)

SpecImage == InitImage /\ [][NextImage]_vars

\* ---------------------------------------------------------- SpecUploadForm
\* One upload request, whose payload size and content type are part of the
\* request, against a store that holds any set of files uploaded earlier
\* with their tags.

InitUploadForm ==
    /\ api_keys = KeyTable(MaxLimit, MaxLimit)
    /\ usage = << >>
    /\ today = 0
    /\ GCS_ENABLED \in BOOLEAN
    /\ \E st \in SeedStores :
          /\ files = IF GCS_ENABLED THEN << >> ELSE st
          /\ bucket = IF GCS_ENABLED THEN st ELSE << >>
          /\ tags = [x \in DOMAIN st |-> {"portrait"}]
    /\ pc = <<"idle">>
    /\ req = <<NoReq>>
    /\ loc = <<NoLoc>>
    /\ res = <<NoRes>>

NextUploadForm ==
    \/ \E p \in DOMAIN pc : BeginUploadForm(p)
    \/ \E p \in DOMAIN pc : Authorize(p)
    \/ \E p \in DOMAIN pc : UploadValidateForm(p)
    \/ \E p \in DOMAIN pc : UploadPick(p)
    \/ \E p \in DOMAIN pc : UploadStore(p)

SpecUploadForm == InitUploadForm /\ [][NextUploadForm]_vars

\* ---------------------------------------------------------------- SpecList
\* NumRequests concurrent listings and derivative requests, against either
\* backend; the store holds the files uploaded earlier and the derivatives
\* of any of them.

SeedDerivStores ==
    {[x \in {objpath("acme", "s1", f) : f \in StoredNames}
            \cup {optpath("acme", "s1", opt_name(f)) : f \in D} |-> seed] :
        D \in SUBSET StoredNames}

InitList ==
    /\ api_keys = KeyTable(MaxLimit, MaxLimit)
    /\ usage = << >>
    /\ today = 0
    /\ GCS_ENABLED \in BOOLEAN
    /\ \E st \in SeedDerivStores :
          /\ files = IF GCS_ENABLED THEN << >> ELSE st
          /\ bucket = IF GCS_ENABLED THEN st ELSE << >>
    /\ tags = << >>
    /\ pc = [p \in 1..NumRequests |-> "idle"]
    /\ req = [p \in 1..NumRequests |-> NoReq]
    /\ loc = [p \in 1..NumRequests |-> NoLoc]
    /\ res = [p \in 1..NumRequests |-> NoRes]

NextList ==
    \/ \E p \in DOMAIN pc : BeginFilesJson(p)
    \/ \E p \in DOMAIN pc : BeginFilesList(p)
    \/ \E p \in DOMAIN pc : BeginOptimize(p)
    \/ \E p \in DOMAIN pc : Authorize(p)
    \/ \E p \in DOMAIN pc : FilesJsonList(p)
    \/ \E p \in DOMAIN pc : FilesListKey(p)
    \/ \E p \in DOMAIN pc : FilesListTemplate(p)
    \/ \E p \in DOMAIN pc : Optimize(p)

SpecList == InitList /\ [][NextList]_vars

\* ---------------------------------------------------------------- SpecSign
\* NumRequests requests that sign a URL in GCS mode, with any credentials,
\* for objects of a bucket that holds any set of uploaded files.

InitSign ==
    /\ api_keys = KeyTable(MaxLimit, MaxLimit)
    /\ usage = << >>
    /\ today = 0
    /\ GCS_ENABLED = TRUE
    /\ files = << >>
    /\ bucket \in SeedStores
    /\ tags = << >>
    /\ pc = [p \in 1..NumRequests |-> "idle"]
    /\ req = [p \in 1..NumRequests |-> NoReq]
    /\ loc = [p \in 1..NumRequests |-> NoLoc]
    /\ res = [p \in 1..NumRequests |-> NoRes]

NextSign ==
    \/ \E p \in DOMAIN pc : BeginSign(p)
    \/ \E p \in DOMAIN pc : GetSignedUrl(p)
    \/ \E p \in DOMAIN pc : DownloadGcs(p)

SpecSign == InitSign /\ [][NextSign]_vars

\* ----------------------------------------------------------------- SpecKey
\* One request that presents the key of a registered company, for any
\* company segment.

InitKey ==
    /\ \E c \in BoundCompanies :
          api_keys = ("T1" :> [company |-> c, daily_limit |-> REGISTER_DAILY_LIMIT])
    /\ usage = << >>
    /\ today = 0
    /\ GCS_ENABLED = FALSE
    /\ files = << >>
    /\ bucket = << >>
    /\ tags = << >>
    /\ pc = <<"idle">>
    /\ req = <<NoReq>>
    /\ loc = <<NoLoc>>
    /\ res = <<NoRes>>

NextKey ==
    \/ \E p \in DOMAIN pc : BeginKeyed(p)
    \/ \E p \in DOMAIN pc : VerifyCompany(p)
    \/ \E p \in DOMAIN pc : ListCompany(p)

SpecKey == InitKey /\ [][NextKey]_vars

\* --------------------------------------------------------------- SpecOwner
\* NumRequests Local requests on one survey: uploads by several owners and
\* listings filtered by owner.

InitOwner ==
    /\ api_keys = KeyTable(MaxLimit, MaxLimit)
    /\ usage = << >>
    /\ today = 0
    /\ GCS_ENABLED = FALSE
    /\ files = << >>
    /\ bucket = << >>
    /\ tags = << >>
    /\ pc = [p \in 1..NumRequests |-> "idle"]
    /\ req = [p \in 1..NumRequests |-> NoReq]
    /\ loc = [p \in 1..NumRequests |-> NoLoc]
    /\ res = [p \in 1..NumRequests |-> NoRes]

NextOwner ==
    \/ \E p \in DOMAIN pc : UploadOwned(p)
    \/ \E p \in DOMAIN pc : ListOwned(p)

SpecOwner == InitOwner /\ [][NextOwner]_vars

\* ------------------------------------------------------------ SpecRegister
\* NumRegisters registrations made one after the other, the key table
\* starting empty.

InitRegister ==
    /\ api_keys = << >>
    /\ usage = << >>
    /\ today = 0
    /\ GCS_ENABLED = FALSE
    /\ files = << >>
    /\ bucket = << >>
    /\ tags = << >>
    /\ pc = [p \in 1..NumRegisters |-> "idle"]
    /\ req = [p \in 1..NumRegisters |-> NoReq]
    /\ loc = [p \in 1..NumRegisters |-> NoLoc]
    /\ res = [p \in 1..NumRegisters |-> NoRes]

BeginRegisterAlone(p) ==
    /\ \A q \in DOMAIN pc : q < p => pc[q] = "done"
    /\ BeginRegister(p)

NextRegister ==
    \/ \E p \in DOMAIN pc : BeginRegisterAlone(p)
    \/ \E p \in DOMAIN pc : RegisterSelect(p)
    \/ \E p \in DOMAIN pc : RegisterCreate(p)

SpecRegister == InitRegister /\ [][NextRegister]_vars

\* ------------------------------------------------- SpecQuota: the claims

Min(a, b) == IF a <= b THEN a ELSE b

\* the calls that have executed their UPDATE for (api_key, day)
Incremented(api_key, day) ==
    {p \in DOMAIN pc : /\ req[p].key = api_key
                       /\ loc[p].day = day
                       /\ req[p].op \in {"authorize", "upload", "files_json"}
                       /\ pc[p] \notin {"idle", "lookup", "insert", "update"}
                       /\ res[p].status \notin {401, 403}}

\* the calls that went through increment_usage_and_check for (api_key, day) and returned
Returned(api_key, day) ==
    {p \in Incremented(api_key, day) : pc[p] \notin {"select", "limit"}}

AllDone == \A p \in DOMAIN pc : pc[p] = "done"

RECURSIVE SumCounts(_, _)
SumCounts(u, rows) ==
    IF rows = {} THEN 0
    ELSE LET r == CHOOSE x \in rows : TRUE IN u[r] + SumCounts(u, rows \ {r})

\* C1: when the N authorize calls for one key and day have all run (the day's
\* counter starting at 0), exactly min(N, L) of them were accepted, L the
\* key's daily limit, whatever the interleaving of their statements.
C1_ExactlyMinAccepted ==
    AllDone =>
        \A k \in KnownKeys, d \in Days :
            Cardinality({p \in Returned(k, d) : res[p].status = 200})
                = Min(Cardinality(Returned(k, d)), api_keys[k].daily_limit)

\* C2: the count of (api_key, day) is the number of increment_usage_and_check
\* calls for it that have executed their UPDATE, in every state and so after
\* all N calls completed: no update is lost, the row being created by
\* whichever call inserts first.
C2_NoLostUpdate ==
    \A k \in KnownKeys, d \in Days :
        /\ usage_select(usage, k, d) = Cardinality(Incremented(k, d))
        /\ Incremented(k, d) # {} => <<k, d>> \in DOMAIN usage

C2_Witness ==
    /\ AllDone
    /\ Cardinality(Returned("K1", 0)) = NumCallers
    /\ usage[<<"K1", 0>>] = NumCallers
    /\ \A p \in QProcs : res[p].count = NumCallers

\* C3: the count a call returns is the value its own UPDATE produced, and no
\* two calls for the same key and day return the same count.
C3_ReturnsOwnIncrement ==
    \A k \in KnownKeys, d \in Days :
        /\ \A p \in Returned(k, d) : res[p].count = loc[p].mine
        /\ \A p, q \in Returned(k, d) : p # q => res[p].count # res[q].count

\* C5: a call is rejected with 429 exactly when the count it read after its
\* increment is greater than the key's limit; it reports that count and the
\* limit; the increment of a rejected call stays committed, and the stored
\* count is never below a count any call has reported (no reset, no cap at
\* the limit).  So a call that reads L+1 for limit L is rejected with
\* usedToday = L+1, and a call that reads at most L is accepted.
C5_RejectAboveLimit ==
    \A k \in KnownKeys, d \in Days :
        /\ \A p \in Returned(k, d) :
              /\ (res[p].status = 429) <=> (res[p].count > api_keys[k].daily_limit)
              /\ res[p].limit = api_keys[k].daily_limit
              /\ res[p].count >= loc[p].mine
              /\ loc[p].mine >= 1
              /\ usage[<<k, d>>] >= res[p].count
        /\ usage_select(usage, k, d) >= Cardinality(Returned(k, d))

\* the (L+1)-th call of the day is rejected reporting L+1 of L, after L accepted calls
C5_Witness ==
    /\ AllDone
    /\ api_keys["K1"].daily_limit = NumCallers - 1
    /\ Cardinality({p \in Returned("K1", 0) : res[p].status = 200}) = NumCallers - 1
    /\ \E p \in Returned("K1", 0) :
          /\ res[p].status = 429
          /\ res[p].count = NumCallers
          /\ res[p].limit = NumCallers - 1
    /\ usage[<<"K1", 0>>] = NumCallers

\* C6: a call rejected for an unknown key (401) or for a key bound to another
\* company (403) changes no usage counter: every usage row belongs to a key
\* that some call presented together with the company it is bound to, and the
\* counts add up to the number of calls that passed both checks and executed
\* their UPDATE.
C6_RejectedLeavesUsage ==
    /\ \A r \in DOMAIN usage :
          \E p \in DOMAIN pc :
              /\ req[p].key = r[1]
              /\ r[1] \in DOMAIN api_keys
              /\ api_keys[r[1]].company = req[p].company
              /\ pc[p] \in {"update", "select", "limit", "done"}
              /\ res[p].status \notin {401, 403}
    /\ SumCounts(usage, DOMAIN usage)
          = Cardinality({p \in DOMAIN pc :
                            /\ pc[p] \in {"select", "limit", "done"}
                            /\ res[p].status \notin {401, 403}})

\* one call rejected for an unknown key, one for a mismatched company, no usage row
C6_Witness ==
    /\ AllDone
    /\ \E p \in QProcs : res[p].status = 401
    /\ \E p \in QProcs : res[p].status = 403 /\ req[p].key = "K1"
    /\ usage = << >>

\* ------------------------------------------------------ Spec: the claims

\* C4: a request reads, lists, writes or derives an object only after
\* verify_api_key has returned for it and its call has incremented the usage
\* counter.
C4_GateBeforeStore ==
    \A p \in DOMAIN pc : loc[p].store => (loc[p].auth /\ loc[p].mine >= 1)

\* C27: a request during which the tag store failed is still answered with
\* success: an upload whose tag write failed answers 200 with the stored
\* object, a listing whose tag read failed answers 200.
C27_TagFailureNeverBlocks ==
    \A p \in DOMAIN pc :
        (pc[p] = "done" /\ loc[p].tagfail) => res[p].status = 200

\* ------------------------------------------------ SpecUpload: the claims

\* the uploads that passed verify_api_key and failed afterwards
FailedDownstream ==
    {p \in DOMAIN pc : /\ req[p].op = "upload"
                       /\ pc[p] = "done"
                       /\ loc[p].auth
                       /\ res[p].status \in {400, 413, 500}}

\* C7: the count of (api_key, day) is the number of requests for it that have
\* executed their UPDATE, whatever became of them afterwards; an upload that
\* was rejected after verify_api_key returned (empty, oversized, disallowed
\* content type, failed write) is among them, and as requests never leave
\* that number no step decrements the count.
C7_CountedOnAuthorization ==
    /\ \A k \in KnownKeys, d \in Days :
          usage_select(usage, k, d) = Cardinality(Incremented(k, d))
    /\ \A p \in FailedDownstream :
          /\ p \in Incremented(req[p].key, loc[p].day)
          /\ loc[p].mine >= 1
          /\ usage[<<req[p].key, loc[p].day>>] >= loc[p].mine

\* two uploads with one key: one rejected as oversized, one failed to store; both counted
C7_Witness ==
    /\ \E p, q \in FailedDownstream :
          /\ res[p].status = 413
          /\ res[q].status = 500
          /\ req[p].key = "K2" /\ req[q].key = "K2"
    /\ usage[<<"K2", 0>>] = 2

\* -------------------------------------------- SpecUploadSeq: the claims

\* the uploads that were stored
Stored == {p \in DOMAIN pc : req[p].op = "upload" /\ pc[p] = "done" /\ res[p].status = 200}

\* C15: in Local mode, with uploads made one after the other, no address is
\* ever written twice, every stored upload still holds its own bytes at its
\* address, and two stored uploads have different addresses.
C15_NoOverwrite ==
    ~GCS_ENABLED =>
        /\ \A x \in DOMAIN files : files[x].ver = 1
        /\ \A p \in Stored : res[p].addr \in DOMAIN files /\ files[res[p].addr].by = p
        /\ \A p, q \in Stored : p # q => res[p].addr # res[q].addr

\* three stored uploads of the same owner and desired name: the second and
\* the third were stored under the suffixes _1 and _2
C15_Witness ==
    /\ ~GCS_ENABLED
    /\ \E p, q, r \in Stored :
          /\ req[p].company = req[q].company /\ req[q].company = req[r].company
          /\ req[p].name.stem = req[q].name.stem /\ req[q].name.stem = req[r].name.stem
          /\ req[p].name.ext = req[q].name.ext /\ req[q].name.ext = req[r].name.ext
          /\ req[p].name.n = 0 /\ req[q].name.n = 1 /\ req[r].name.n = 2

\* C25: in Local mode, with uploads made one after the other, the file name
\* and the address a stored upload returned both name the file that holds
\* this upload's bytes: downloading the returned file name from the upload's
\* company and survey serves them.
C25_ReturnedNameIsStored ==
    ~GCS_ENABLED =>
        \A p \in Stored :
            LET named == objpath(req[p].company, req[p].survey, res[p].filename)
            IN /\ res[p].addr \in DOMAIN files /\ files[res[p].addr].by = p
               /\ named \in DOMAIN files /\ files[named].by = p

\* ------------------------------------- SpecUpload: the claims, continued

\* C16: in Local mode, with concurrent uploads, two stored uploads have
\* different addresses and each still holds its own bytes at its address.
C16_ConcurrentNoOverwrite ==
    ~GCS_ENABLED =>
        \A p, q \in Stored :
            p # q => /\ res[p].addr # res[q].addr
                     /\ res[p].addr \in DOMAIN files /\ files[res[p].addr].by = p

\* ------------------------------------------------- SpecDeriv: the claims

Succeeded(p) ==
    /\ req[p].op = "optimize"
    /\ pc[p] = "done"
    /\ res[p].status \in {200, 302}

SameSource(p, q) ==
    /\ req[p].company = req[q].company
    /\ req[p].survey = req[q].survey
    /\ req[p].name = req[q].name

SourceExists(p) == src_of(p) \in DOMAIN (IF GCS_ENABLED THEN bucket ELSE files)

\* the objects at derivative addresses
Derivatives == {x \in DOMAIN files \cup DOMAIN bucket : Len(x) = 4}
content(x) == IF x \in DOMAIN files THEN files[x] ELSE bucket[x]

C9_DerivedOnce ==
    (\A p \in DOMAIN pc : Succeeded(p))
    => /\ \A p, q \in DOMAIN pc :
             (p # q /\ SameSource(p, q)) => ~(loc[p].work >= 1 /\ loc[q].work >= 1)
       /\ \A x \in Derivatives : content(x).ver = 1

\* C10: no request is given, as a cache hit, a derivative that is not
\* completely written, and a request whose derivation failed leaves no
\* partly written object at the derivative's address.
C10_AtomicPublish ==
    \A p \in DOMAIN pc :
        /\ loc[p].hit => loc[p].seen = "complete"
        /\ (req[p].op = "optimize" /\ pc[p] = "done" /\ res[p].status = 500)
           => ~(/\ out_of(p) \in Derivatives
                /\ content(out_of(p)).by = p
                /\ content(out_of(p)).st = "partial")

\* C12: a derivative request that began when an object already existed at the
\* derivative name of its source (written by a request that had returned
\* before) returns that object's address as a cache hit without derivation
\* work, whether or not a source object of the requested name exists.
C12_ExistingDerivativeReturned ==
    \A p \in DOMAIN pc :
        (/\ req[p].op = "optimize" /\ pc[p] = "done"
         /\ out_of(p) \in Derivatives
         /\ content(out_of(p)).by \in loc[p].after)
        => /\ res[p].status \in {200, 302}
           /\ res[p].addr = out_of(p)
           /\ loc[p].hit
           /\ loc[p].work = 0

\* the messages of the RuntimeErrors optimize_endpoint turns into its
\* {"ok": false, "error": ...} answer with status 500
DerivationFailed == {"ffmpeg not found", "ffmpeg failed", "optimize failed"}

\* C13: a derivative request whose derivation step failed is answered with
\* the DerivationFailed result of optimize_endpoint (status 500 with one of
\* its messages), never with an error that escaped the handler, NotFound or
\* success.
C13_FailureIsDerivationFailed ==
    \A p \in DOMAIN pc :
        (/\ req[p].op = "optimize" /\ pc[p] = "done"
         /\ ~loc[p].hit /\ res[p].addr = << >> /\ res[p].status # 404)
        => (res[p].status = 500 /\ res[p].detail \in DerivationFailed)

\* C14: a derivative request whose source object does not exist does no
\* derivation work and writes nothing at the derivative address; when it
\* returns and no object is at the derivative address either, its answer is
\* NotFound (404) and carries no address.
C14_NotFoundWithoutSource ==
    \A p \in DOMAIN pc :
        (req[p].op = "optimize" /\ ~SourceExists(p))
        => /\ loc[p].work = 0
           /\ out_of(p) \in Derivatives => content(out_of(p)).by # p
           /\ (pc[p] = "done" /\ out_of(p) \notin Derivatives)
              => (res[p].status = 404 /\ ~loc[p].hit /\ res[p].addr = << >>)

\* a request for a name with neither source nor derivative was answered 404
C14_Witness ==
    \E p \in DOMAIN pc :
        /\ req[p].op = "optimize" /\ pc[p] = "done"
        /\ ~SourceExists(p)
        /\ out_of(p) \notin Derivatives
        /\ res[p].status = 404
        /\ loc[p].work = 0

\* --------------------------------------------- SpecDerivFair: the claims

\* C11: every derivative request that has begun eventually returns (with a
\* result or a failure), whatever the external probe and transcode processes do.
C11_EventuallyReturns ==
    \A p \in 1..NumDerivers : (pc[p] # "idle") ~> (pc[p] = "done")

\* ------------------------------------------------- SpecName: the claims

\* a cleaned name
Cleaned(p) == req[p].op = "secure_name" /\ pc[p] = "done"
chars_of(s) == {s[i] : i \in 1..Len(s)}

\* C18: the result of secure_name is not empty, contains no path separator
\* and is neither "." nor "..".
C18_SafeSegment ==
    \A p \in DOMAIN pc :
        Cleaned(p) => /\ res[p].detail # << >>
                      /\ "/" \notin chars_of(res[p].detail)
                      /\ res[p].detail # <<".">>
                      /\ res[p].detail # <<".", ".">>

\* C20: secure_name applied to a result of secure_name returns it unchanged.
C20_Idempotent ==
    \A p \in DOMAIN pc :
        Cleaned(p) => secure_name(res[p].detail) = res[p].detail

\* ------------------------------------------------- SpecPath: the claims

\* C17: a Local download that serves a file serves one whose resolved path
\* lies below the resolved directory of the requested company and survey.
C17_DownloadConfined ==
    \A p \in DOMAIN pc :
        (req[p].op = "download" /\ pc[p] = "done" /\ res[p].status = 200)
        => below(res[p].addr, resolve(target_dir(req[p].company, req[p].survey)))

\* C19: every path a Local upload, listing or derivative request reads or
\* writes lies in the uploads directory at least two levels down: in the
\* directory of a survey of a company, or below it.
C19_OperationsConfined ==
    \A p \in DOMAIN pc :
        (pc[p] = "done" /\ req[p].op \in {"upload", "files_json", "optimize"})
        => \A t \in loc[p].touched :
              /\ below(t, UPLOADS)
              /\ Len(t) >= Len(UPLOADS) + 2

\* the part of a string after its last "/" (the whole string when it has none)
after_last_sep(x) == LET segs == split(x) IN segs[Len(segs)]

\* out is seg with every character outside [A-Za-z0-9._-] replaced by "_"
\* and every other character kept in place
is_cleaned_of(out, seg) ==
    /\ Len(out) = Len(seg)
    /\ \A i \in 1..Len(seg) :
          out[i] = IF seg[i] \in SafeChars THEN seg[i] ELSE "_"

\* C21: for every input whose part after the last "/" is not empty,
\* secure_name returns that part with every character outside [A-Za-z0-9._-]
\* replaced by "_" and the others kept in place; for every input the result
\* contains only characters of [A-Za-z0-9._-].
C21_CleansBaseSegment ==
    \A p \in DOMAIN pc :
        Cleaned(p) =>
            /\ ((after_last_sep(req[p].name) # << >>)
                => is_cleaned_of(res[p].detail, after_last_sep(req[p].name)))
            /\ chars_of(res[p].detail) \subseteq SafeChars

\* C22: secure_name never returns the empty string, and returns "file" for
\* the empty string and for every input without a base segment (its part
\* after the last "/" is empty or ".").
C22_FallbackToken ==
    \A p \in DOMAIN pc :
        Cleaned(p) =>
            /\ res[p].detail # << >>
            /\ ((after_last_sep(req[p].name) \in {<< >>, <<".">>})
                => res[p].detail = <<"f", "i", "l", "e">>)

\* --------------------------------------------- SpecRegister: the claims

Registrations == {p \in DOMAIN pc : req[p].op = "register" /\ pc[p] = "done"}

\* C23: with registrations made one after the other, every registration
\* returns a key the table holds for its company with daily limit 500, two
\* registrations of the same cleaned company return the same key, and the
\* table holds at most one key per company.
C23_RegisterIdempotent ==
    /\ \A p \in Registrations :
          /\ res[p].detail \in DOMAIN api_keys
          /\ api_keys[res[p].detail].company = req[p].company
          /\ api_keys[res[p].detail].daily_limit = 500
          /\ res[p].limit = 500
    /\ \A p, q \in Registrations :
          req[p].company = req[q].company => res[p].detail = res[q].detail
    /\ \A k1, k2 \in DOMAIN api_keys :
          api_keys[k1].company = api_keys[k2].company => k1 = k2

\* three registrations of one company and one of another: two keys in all
C23_Witness ==
    /\ Cardinality(DOMAIN api_keys) = 2
    /\ \E p, q, r \in Registrations :
          /\ p < q /\ q < r
          /\ req[p].company = req[q].company /\ req[q].company = req[r].company
          /\ res[p].detail = res[q].detail /\ res[q].detail = res[r].detail
    /\ \E p, q \in Registrations : res[p].detail # res[q].detail

\* ------------------------------------------- SpecUploadForm: the claims

\* the payload or the content type of the upload is one that must be rejected
Rejectable(p) ==
    \/ req[p].size = 0
    \/ req[p].size > MAX_UPLOAD_SIZE
    \/ ~ \E pre \in ALLOWED_PREFIXES : startswith(type_lower(req[p].ctype), pre)

\* C24: an upload with an empty payload, a payload above MAX_UPLOAD_SIZE or a
\* content type (compared in lower case) that starts with no allowed prefix
\* leaves the validation with status 400 or 413 and never stores; the step
\* that rejects an upload leaves files, bucket and tags as they were.
C24_RejectedUploadStoresNothing ==
    [][\A p \in DOMAIN pc :
          /\ (pc[p] = "up_validate" /\ pc'[p] # "up_validate" /\ Rejectable(p))
                => /\ pc'[p] = "done"
                   /\ res'[p].status \in {400, 413}
          /\ (pc[p] # "done" /\ pc'[p] = "done" /\ res'[p].status \in {400, 413})
                => /\ ~loc'[p].store
                   /\ files' = files /\ bucket' = bucket /\ tags' = tags]_vars

\* with an object of an earlier upload and its tags in the store, an upload
\* that passed verify_api_key was rejected for its payload or content type
C24_Witness ==
    /\ DOMAIN files \cup DOMAIN bucket # {}
    /\ DOMAIN tags # {}
    /\ \E p \in DOMAIN pc :
          /\ pc[p] = "done" /\ loc[p].auth /\ Rejectable(p)
          /\ res[p].status \in {400, 413}
          /\ ~loc[p].store

\* ------------------------------------------------- SpecList: the claims

Listed(p) == req[p].op \in {"files_json", "files_list"} /\ pc[p] = "done" /\ res[p].status = 200

\* the store a listing reads: files_json the local directory, whichever
\* backend is selected, files_list_template the selected backend
listed_store(p) == IF req[p].op = "files_list" /\ GCS_ENABLED THEN bucket ELSE files

\* the names of the objects under optimized/ of the listed company and survey
DerivativeNames(p) ==
    {x[4] : x \in {y \in DOMAIN files \cup DOMAIN bucket :
                      Len(y) = 4 /\ y[1] = req[p].company /\ y[2] = req[p].survey}}

\* C26: every entry of a listing by files_json or files_list_template is a
\* file stored directly in the company's survey, and none is the name of an
\* object under its optimized/ namespace.
C26_ListingsExcludeDerivatives ==
    \A p \in DOMAIN pc :
        Listed(p) =>
            \A n \in res[p].listing :
                /\ objpath(req[p].company, req[p].survey, n) \in DOMAIN listed_store(p)
                /\ n \notin DerivativeNames(p)

\* both kinds of listing returned the originals of a survey whose store holds
\* a derivative from before the listings
C26_Witness ==
    \E p, q \in DOMAIN pc :
        /\ Listed(p) /\ req[p].op = "files_json"
        /\ Listed(q) /\ req[q].op = "files_list"
        /\ res[p].listing # {} /\ res[q].listing # {}
        /\ \E x \in DOMAIN listed_store(q) :
              Len(x) = 4 /\ x[4] \in DerivativeNames(q) /\ listed_store(q)[x].by = 0

\* -------------------------------------------------- SpecLog: the claims

\* C28: a request during which log_event failed is answered as it is when
\* the log is written: an upload whose bytes were stored with 200, a
\* listing with 200, a download or a derivative request with 200, 302 or 404.
C28_LogFailureIsSilent ==
    \A p \in DOMAIN pc :
        (pc[p] = "done" /\ loc[p].logfail) =>
            /\ res[p].status \in {200, 302, 404}
            /\ res[p].detail # "uncaught"

\* ------------------------------------------------- SpecSign: the claims

\* C29: a request that signs a URL for an existing object, by get_signed_url
\* or by the GCS branch of download, succeeds when the default identity
\* signs or GCP_SA_KEY holds a valid credential, and fails only when the
\* default signing fails and GCP_SA_KEY is absent, unparsable or unable to
\* sign.
C29_SigningFallsBack ==
    \A p \in DOMAIN pc :
        (pc[p] = "done" /\ req[p].op \in {"get_signed_url", "download"}
                       /\ res[p].status # 404) =>
            (res[p].status = 500
                <=> (req[p].adc = "cannot_sign" /\ req[p].sa_key # "valid"))

\* ----------------------------------------- SpecQuota: the claims, continued

C31_KeyBoundToNamespace ==
    \A p \in DOMAIN pc :
        (pc[p] = "done" /\ loc[p].auth) =>
            res[p].detail = api_keys[req[p].key].company

\* -------------------------------------------- SpecDerivPair: the claims

\* C32: the derivative a successful request returns was written by a
\* request for the same source object (same company, survey and file name).
C32_DerivativeOfItsSource ==
    \A p \in DOMAIN pc :
        (Succeeded(p) /\ res[p].addr \in DOMAIN files \cup DOMAIN bucket) =>
            LET w == content(res[p].addr).by
            IN w \in DOMAIN pc /\ src_of(w) = src_of(p)

\* ----------------------------------------- SpecRegisterConc: the claims

\* C33: with concurrent registrations, the key table holds at most one key
\* per company and two registrations of the same company that have returned
\* have returned the same key, the one the table holds.
C33_ConcurrentRegisterOneKey ==
    \A p, q \in Registrations :
        req[p].company = req[q].company =>
            /\ res[p].detail = res[q].detail
            /\ Cardinality(company_keys(api_keys, req[p].company)) = 1

\* ------------------------------------------------ SpecOwner: the claims

\* the cleaned owner id of the upload that wrote the file x
owner_of(x) == secure_name(req[files[x].by].user_id)

\* C34: every file a listing filtered by user_id returned was uploaded by
\* the owner whose cleaned id is that of the filter.
C34_OwnerFilterExact ==
    \A p \in DOMAIN pc :
        (pc[p] = "done" /\ req[p].op = "files_json" /\ req[p].user_id # << >>) =>
            \A x \in res[p].listing : owner_of(x) = secure_name(req[p].user_id)

\* ------------------------------------------- SpecUploadList: the claims

\* C35: in either backend, a JSON listing of a company's survey made after
\* an upload to it was stored includes the stored object.
C35_UploadedIsListed ==
    \A p, q \in DOMAIN pc :
        (/\ p < q /\ p \in Stored
         /\ req[q].op = "files_json" /\ pc[q] = "done" /\ res[q].status = 200
         /\ req[q].company = req[p].company /\ req[q].survey = req[p].survey)
        => res[p].addr[3] \in res[q].listing

\* --------------------------------------------- SpecBackend: the claims

\* C36: a request made while the bucket is not configured or raises ends as
\* a server-side error: never as a success, never as not found.
C36_BackendFailureIsServerError ==
    \A p \in DOMAIN pc :
        (pc[p] = "done" /\ GCS_ENABLED /\ req[p].gcs # "ok"
         /\ req[p].op \in {"files_list", "download", "optimize"}
         /\ res[p].status \notin {401, 403})
        => res[p].status >= 500

\* ------------------------------------- SpecUploadSeq: the collision search

\* the name stem_k.ext of a target name (k = 0: the target name itself)
suffixed(p, k) == objpath(req[p].company, req[p].survey, [req[p].name EXCEPT !.n = k])

\* C37: in Local mode, with uploads made one after the other, the search
\* settles on the target name when it is free and else on stem_k.ext for the
\* least k >= 1 that does not exist, and neither the search nor the write
\* that follows changes or removes a file that existed.
C37_LeastFreeSuffix ==
    [][\A p \in DOMAIN pc :
          /\ (pc[p] = "up_store" /\ pc'[p] = "up_write") =>
                 LET k == req'[p].name.n IN
                 /\ req'[p].name = [req[p].name EXCEPT !.n = k]
                 /\ suffixed(p, k) \notin DOMAIN files
                 /\ \A j \in 0..(k - 1) : suffixed(p, j) \in DOMAIN files
                 /\ files' = files
          /\ (pc[p] = "up_write" /\ pc'[p] = "done") =>
                 \A x \in DOMAIN files : x \in DOMAIN files' /\ files'[x] = files[x]
      ]_vars

\* an upload was stored under the suffix _2: its target name and the
\* name with the suffix _1 were both taken by other uploads
C37_Witness ==
    /\ ~GCS_ENABLED
    /\ \E p \in Stored :
          /\ req[p].name.n = 2
          /\ files[suffixed(p, 2)].by = p
          /\ \A j \in {0, 1} : suffixed(p, j) \in DOMAIN files /\ files[suffixed(p, j)].by # p

\* ------------------------------------ SpecUploadSeq: the deterministic address

\* the uploads that wrote their bytes
Wrote == {p \in DOMAIN pc : req[p].op = "upload" /\ pc[p] = "done" /\ loc[p].store}

\* the uploads that wrote to the address of upload p
same_address(p) ==
    {q \in Wrote : suffixed(q, req[q].name.n) = suffixed(p, req[p].name.n)}

\* C38: in GCS mode, with uploads made one after the other, every upload
\* writes to the address of its owner and name without a suffix, and the one
\* object at this address holds the bytes of the last upload written there,
\* having been written once per upload.
C38_RemoteUploadReplaces ==
    GCS_ENABLED =>
        \A p \in Wrote :
            LET x == suffixed(p, 0)
                last == CHOOSE q \in same_address(p) : \A r \in same_address(p) : r <= q
            IN /\ req[p].name.n = 0
               /\ x \in DOMAIN bucket
               /\ bucket[x].by = last
               /\ bucket[x].ver = Cardinality(same_address(p))

\* two stored uploads of the same owner and name: the object holds the bytes
\* of the second, written over those of the first
C38_Witness ==
    /\ GCS_ENABLED
    /\ \E p, q \in Stored :
          /\ p < q /\ q \in same_address(p)
          /\ bucket[suffixed(p, 0)].by = q
          /\ bucket[suffixed(p, 0)].ver = 2

\* ------------------------------------------- SpecDeriv: the video probe

\* C39: a video request that has probed its source has the scale filter set
\* exactly when the probe returned a width above max_video_width; in Local
\* mode the probe step, whatever ffprobe did, answers nothing and hands over
\* to ffmpeg.
C39_ScaleIffProbedWider ==
    [][\A p \in DOMAIN pc :
          (/\ pc[p] \in {"probe", "gcs_work"}
           /\ req[p].name.ext \in VIDEO_EXTS
           /\ pc'[p] \notin {pc[p], "hung"})
          => /\ loc'[p].vf <=> (loc'[p].src_width # None
                                /\ loc'[p].src_width > max_video_width)
             /\ pc[p] = "probe" => (pc'[p] = "ffmpeg" /\ res'[p] = res[p])
      ]_vars

\* a video derivative was built and returned after a probe that gave no
\* width, without the scale filter
C39_Witness ==
    \E p \in DOMAIN pc :
        /\ req[p].op = "optimize" /\ req[p].name.ext \in VIDEO_EXTS
        /\ pc[p] = "done" /\ res[p].status = 200 /\ loc[p].work > 0
        /\ loc[p].src_width = None /\ ~loc[p].vf

\* ----------------------------------------------- SpecImage: the claims

\* C40: the derivative of an image of w by h pixels is saved with w by h
\* pixels when w is at most target_img_width and else with target_img_width
\* by floor(target_img_width * h / w); it is at most target_img_width wide
\* and at least one pixel wide and high.
C40_ImageDimensions ==
    \A p \in DOMAIN pc :
        pc[p] = "done" =>
            LET w == req[p].w
                h == req[p].h
            IN /\ res[p].status = 200
               /\ res[p].size = IF w <= target_img_width THEN <<w, h>>
                                 ELSE <<target_img_width, (target_img_width * h) \div w>>
               /\ res[p].size[1] <= target_img_width
               /\ res[p].size[1] >= 1 /\ res[p].size[2] >= 1

====
